---- MODULE Spec2Model ----
(***************************************************************************)
(* Usage-matching pipeline of music-publishing-lifecycle.                  *)
(*                                                                         *)
(*   Usage Processor  services/workers/usage_processor/src/main.py         *)
(*   Matching Engine  services/workers/matching_worker/src/main.py         *)
(*                    services/workers/matching_worker/src/agents/         *)
(*                    matching_agent.py (the cascade graph)                *)
(*   Bus client       services/workers/shared/kafka_utils.py               *)
(*   Manual match     services/ai/src/routers/usage.py                     *)
(*                                                                         *)
(* Similarities and confidences are integers in hundredths (100 = 1.0).    *)
(* Identifiers (ISRC, ISWC, titles, embeddings) are abstract keys: the     *)
(* normalized event carries the cleaned identifier.                        *)
(***************************************************************************)
EXTENDS Integers, Sequences, FiniteSets, TLC

VARIABLES
    rawLog,          \* usage.raw.*: the raw payloads of one partition, in offset order
    upPos,           \* Usage Processor consumer: position (next offset to fetch)
    upCommitted,     \* Usage Processor consumer group: committed offset
    up,              \* Usage Processor: the handler's position and locals
    nextId,          \* uuid4 source: the next fresh event_id
    usage_events,    \* table usage_events: event_id -> row
    normalized,      \* topic usage.normalized
    mePos,           \* Matching Engine consumer: position
    meCommitted,     \* Matching Engine consumer group: committed offset
    me,              \* Matching Engine: MatchingState plus the handler's position
    matched_usage,   \* table matched_usage: a set of rows
    nextRow,         \* uuid4 source: the next fresh matched_usage.id
    matched,         \* topic usage.matched
    unmatched,       \* topic usage.unmatched
    dlq_matching,    \* topic dlq.matching
    dlq_processing,  \* topic dlq.usage.processing
    env              \* environment events so far: failures (database, producer,
                     \* provider), worker crashes, manual-match requests

vars == <<rawLog, upPos, upCommitted, up, nextId, usage_events, normalized,
          mePos, meCommitted, me, matched_usage, nextRow, matched, unmatched,
          dlq_matching, dlq_processing, env>>

----------------------------------------------------------------------------
(* Bounds of the model *)

MaxRaw == 1
MaxEnv == 1
MaxBatch == 2

----------------------------------------------------------------------------
(* Settings: matching_worker/src/config.py *)

isrc_confidence == 100
fuzzy_match_threshold == 85
embedding_match_threshold == 80
manual_review_threshold == 60
max_alternative_matches == 5

\* usage_processor/src/config.py
max_retries == 3

NoVal == "none"

----------------------------------------------------------------------------
(* Reference store: works and recordings (read-only for the pipeline) *)

Recording == { [id |-> "R1", work_id |-> "W1", isrc |-> "I1"],
               [id |-> "R2", work_id |-> "W2", isrc |-> NoVal] }

Work == { [id |-> "W1", iswc |-> NoVal, status |-> "active",   has_embedding |-> TRUE],
          [id |-> "W2", iswc |-> "T1",  status |-> "active",   has_embedding |-> TRUE],
          [id |-> "W3", iswc |-> NoVal, status |-> "active",   has_embedding |-> TRUE],
          [id |-> "W4", iswc |-> NoVal, status |-> "inactive", has_embedding |-> TRUE],
          [id |-> "W5", iswc |-> NoVal, status |-> "active",   has_embedding |-> TRUE],
          [id |-> "W6", iswc |-> NoVal, status |-> "active",   has_embedding |-> TRUE],
          [id |-> "W7", iswc |-> NoVal, status |-> "active",   has_embedding |-> TRUE] }

WorkIds == { w.id : w \in Work }

\* pg_trgm similarity(LOWER(r.title), LOWER(:search_text)) per recording
RecordingSimilarity(title, rec) ==
    CASE title = "ta" /\ rec = "R1" -> 92
      [] title = "tb" /\ rec = "R2" -> 78
      [] OTHER -> 20

\* pg_trgm similarity(LOWER(w.title), LOWER(:title)) per work
WorkSimilarity(title, work) ==
    CASE title = "ta" /\ work = "W1" -> 88
      [] title = "ta" /\ work = "W2" -> 50
      [] title = "tb" /\ work = "W2" -> 80
      [] title = "tb" /\ work = "W4" -> 99
      [] title = "tc" /\ work = "W1" -> 76
      [] OTHER -> 10

\* 1 - (w.title_embedding <=> :embedding) per work; the embedding of an event
\* is keyed by the text it was generated from
CosineSimilarity(embedding, work) ==
    CASE embedding = "ta" /\ work = "W1" -> 95
      [] embedding = "tb" /\ work = "W2" -> 86
      [] embedding = "tb" /\ work = "W1" -> 65
      [] embedding = "tc" /\ work = "W1" -> 78
      [] embedding = "tc" /\ work = "W2" -> 68
      [] embedding = "tc" /\ work = "W3" -> 63
      [] embedding = "tc" /\ work = "W4" -> 90
      [] embedding = "tc" /\ work = "W5" -> 68
      [] embedding = "tc" /\ work = "W6" -> 61
      [] embedding = "tc" /\ work = "W7" -> 60
      [] OTHER -> 30

----------------------------------------------------------------------------
(* Helpers *)

MatchResult(w, r, c, m) ==
    [work_id |-> w, recording_id |-> r, confidence |-> c, method |-> m]

RECURSIVE SortedDesc(_)
\* ORDER BY score DESC / sorted(key=confidence, reverse=True) of a set of rows
SortedDesc(S) ==
    IF S = {} THEN <<>>
    ELSE LET top == CHOOSE x \in S : \A y \in S : y.confidence <= x.confidence
         IN  <<top>> \o SortedDesc(S \ {top})

Range(seq) == { seq[i] : i \in 1..Len(seq) }

RECURSIVE RowOrders(_)
\* The orders in which rows sorted by score alone can come: the queries name
\* no second sort key (ORDER BY sim_score DESC, ORDER BY distance) and
\* sorted() is stable, so rows of equal score keep whatever order the database
\* returned them in
RowOrders(seq) ==
    IF seq = <<>> THEN {<<>>}
    ELSE LET first == { x \in Range(seq) : x.confidence = seq[1].confidence }
         IN  UNION { { <<x>> \o rest :
                         rest \in RowOrders(SelectSeq(seq, LAMBDA y : y # x)) } :
                     x \in first }

\* a query or a slice without its limit
Take_unlimited(seq, n) == seq

Take(seq, n) == SubSeq(seq, 1, IF Len(seq) < n THEN Len(seq) ELSE n)

----------------------------------------------------------------------------
(* Matchers: matching_worker/src/tools *)

NoResult == MatchResult(NoVal, NoVal, 0, NoVal)

\* IsrcMatcher.match that returns the work of the recording without the
\* recording
IsrcMatcher_match_work_only(isrc) ==
    IF isrc = NoVal THEN NoResult
    ELSE LET hits == { r \in Recording : r.isrc = isrc }
         IN  IF hits = {} THEN NoResult
             ELSE LET recording == CHOOSE r \in hits : TRUE
                  IN  MatchResult(recording.work_id, NoVal,
                                  isrc_confidence, "isrc_exact")

IsrcMatcher_match(isrc) ==
    IF isrc = NoVal THEN NoResult
    ELSE LET hits == { r \in Recording : r.isrc = isrc }
         IN  IF hits = {} THEN NoResult
             ELSE LET recording == CHOOSE r \in hits : TRUE
                  IN  MatchResult(recording.work_id, recording.id,
                                  isrc_confidence, "isrc_exact")

IswcMatcher_match(iswc) ==
    IF iswc = NoVal THEN NoResult
    ELSE LET hits == { w \in Work : w.iswc = iswc }
         IN  IF hits = {} THEN NoResult
             ELSE LET work == CHOOSE w \in hits : TRUE
                  IN  MatchResult(work.id, NoVal, 100, "iswc_exact")

\* the filter of the rows after the query, letting every row pass
AtLeastFuzzy_any(m) == TRUE

AtLeastFuzzy(m) == m.confidence >= fuzzy_match_threshold

FuzzyMatcher_match_recordings(title, limit) ==
    LET rows == { MatchResult(r.work_id, r.id, RecordingSimilarity(title, r.id),
                              "fuzzy_title") : r \in Recording }
        cand == { m \in rows : m.confidence > fuzzy_match_threshold - 10 }
    IN  SelectSeq(Take(SortedDesc(cand), limit), AtLeastFuzzy)

FuzzyMatcher_match_works(title, limit) ==
    LET active == { w \in Work : w.status = "active" }
        rows == { MatchResult(w.id, NoVal, WorkSimilarity(title, w.id),
                              "fuzzy_title") : w \in active }
        cand == { m \in rows : m.confidence > fuzzy_match_threshold - 10 }
    IN  SelectSeq(Take(SortedDesc(cand), limit), AtLeastFuzzy)

\* all_matches after the two loops: per work_id the first candidate, replaced
\* only by a later one with strictly higher confidence
BestPerWork(seq) ==
    { seq[i] : i \in { j \in 1..Len(seq) :
        /\ \A k \in 1..Len(seq) :
              seq[k].work_id = seq[j].work_id => seq[k].confidence <= seq[j].confidence
        /\ \A k \in 1..(j-1) :
              seq[k].work_id = seq[j].work_id => seq[k].confidence < seq[j].confidence } }

FuzzyMatcher_match(title, limit) ==
    IF title = NoVal THEN <<>>
    ELSE LET recording_matches == FuzzyMatcher_match_recordings(title, limit)
             work_matches == FuzzyMatcher_match_works(title, limit)
         IN  Take(SortedDesc(BestPerWork(recording_matches \o work_matches)), limit)

\* get_best_match that accepts an identical title only
FuzzyMatcher_get_best_match_identical(title) ==
    LET matches == FuzzyMatcher_match(title, 1)
    IN  IF matches # <<>> /\ matches[1].confidence >= 100
        THEN matches[1] ELSE NoResult

FuzzyMatcher_get_best_match(title) ==
    LET matches == FuzzyMatcher_match(title, 1)
    IN  IF matches # <<>> /\ matches[1].confidence >= fuzzy_match_threshold
        THEN matches[1] ELSE NoResult

AtLeastReview(m) == m.confidence >= manual_review_threshold

EmbeddingMatcher_match(embedding, limit) ==
    IF embedding = NoVal THEN <<>>
    ELSE LET rows == { MatchResult(w.id, NoVal, CosineSimilarity(embedding, w.id),
                                   "ai_embedding") :
                       w \in { x \in Work : x.has_embedding /\ x.status = "active" } }
         IN  SelectSeq(Take(SortedDesc(rows), limit), AtLeastReview)

\* get_best_match that returns the best candidate for review, whatever its
\* similarity
EmbeddingMatcher_get_best_match_any(embedding) ==
    LET matches == EmbeddingMatcher_match(embedding, 1)
    IN  IF matches # <<>> THEN matches[1] ELSE NoResult

EmbeddingMatcher_get_best_match(embedding) ==
    LET matches == EmbeddingMatcher_match(embedding, 1)
    IN  IF matches # <<>> /\ matches[1].confidence >= embedding_match_threshold
        THEN matches[1] ELSE NoResult

EmbeddingMatcher_get_suggestions(embedding, limit) ==
    EmbeddingMatcher_match(embedding, limit)

----------------------------------------------------------------------------
(* The cascade: matching_worker/src/agents/matching_agent.py *)

Attempt(method, success) == [method |-> method, success |-> success]

Suggestion(m) ==
    [work_id |-> m.work_id, recording_id |-> m.recording_id,
     confidence |-> m.confidence, method |-> m.method]

Accept(state, result, recording_id, method) ==
    [state EXCEPT !.match_found = TRUE,
                  !.work_id = result.work_id,
                  !.recording_id = recording_id,
                  !.confidence = result.confidence,
                  !.match_method = result.method,
                  !.match_attempts = Append(@, Attempt(method, TRUE))]

\* try_isrc_match that records the accepting attempt but leaves match_found unset
try_isrc_match_unflagged(state) ==
    LET s == [state EXCEPT !.current_step = "isrc_match"]
        result == IsrcMatcher_match(s.isrc)
    IN  IF s.isrc = NoVal THEN s
        ELSE IF result # NoResult
             THEN [Accept(s, result, result.recording_id, "isrc_exact")
                      EXCEPT !.match_found = FALSE]
             ELSE [s EXCEPT !.match_attempts = Append(@, Attempt("isrc_exact", FALSE))]

try_isrc_match(state) ==
    LET s == [state EXCEPT !.current_step = "isrc_match"]
        result == IsrcMatcher_match(s.isrc)
    IN  IF s.isrc = NoVal THEN s
        ELSE IF result # NoResult
             THEN Accept(s, result, result.recording_id, "isrc_exact")
             ELSE [s EXCEPT !.match_attempts = Append(@, Attempt("isrc_exact", FALSE))]

try_iswc_match(state) ==
    LET s == [state EXCEPT !.current_step = "iswc_match"]
        result == IswcMatcher_match(s.iswc)
    IN  IF s.match_found THEN s
        ELSE IF s.iswc = NoVal THEN s
        ELSE IF result # NoResult
             THEN Accept(s, result, NoVal, "iswc_exact")
             ELSE [s EXCEPT !.match_attempts = Append(@, Attempt("iswc_exact", FALSE))]

try_fuzzy_match(state) ==
    LET s == [state EXCEPT !.current_step = "fuzzy_match"]
        result == FuzzyMatcher_get_best_match(s.title)
        suggestions == FuzzyMatcher_match(s.title, max_alternative_matches)
    IN  IF s.match_found THEN s
        ELSE IF s.title = NoVal THEN s
        ELSE IF result # NoResult
             THEN Accept(s, result, result.recording_id, "fuzzy_title")
             ELSE [s EXCEPT
                     !.suggested_matches =
                         @ \o [i \in 1..Len(suggestions) |-> Suggestion(suggestions[i])],
                     !.match_attempts = Append(@, Attempt("fuzzy_title", FALSE))]

NotPresent(existing, m) == m.work_id \notin { x.work_id : x \in Range(existing) }

\* try_embedding_match without the early return for an event that carries no
\* embedding
try_embedding_match_unguarded(state) ==
    LET s == [state EXCEPT !.current_step = "embedding_match"]
        result == EmbeddingMatcher_get_best_match(s.content_embedding)
        suggestions == EmbeddingMatcher_get_suggestions(s.content_embedding,
                                                        max_alternative_matches)
        fresh == SelectSeq(suggestions, LAMBDA m : NotPresent(s.suggested_matches, m))
    IN  IF s.match_found THEN s
        ELSE IF result # NoResult
             THEN Accept(s, result, NoVal, "ai_embedding")
             ELSE [s EXCEPT
                     !.suggested_matches =
                         @ \o [i \in 1..Len(fresh) |-> Suggestion(fresh[i])],
                     !.match_attempts = Append(@, Attempt("ai_embedding", FALSE))]

try_embedding_match(state) ==
    LET s == [state EXCEPT !.current_step = "embedding_match"]
        result == EmbeddingMatcher_get_best_match(s.content_embedding)
        suggestions == EmbeddingMatcher_get_suggestions(s.content_embedding,
                                                        max_alternative_matches)
        fresh == SelectSeq(suggestions, LAMBDA m : NotPresent(s.suggested_matches, m))
    IN  IF s.match_found THEN s
        ELSE IF s.content_embedding = NoVal THEN s
        ELSE IF result # NoResult
             THEN Accept(s, result, NoVal, "ai_embedding")
             ELSE [s EXCEPT
                     !.suggested_matches =
                         @ \o [i \in 1..Len(fresh) |-> Suggestion(fresh[i])],
                     !.match_attempts = Append(@, Attempt("ai_embedding", FALSE))]

determine_outcome(state) ==
    LET s == [state EXCEPT !.current_step = "determine_outcome"]
    IN  IF s.match_found /\ s.work_id # NoVal
        THEN [s EXCEPT !.outcome = "matched"]
        ELSE [s EXCEPT !.outcome = "unmatched",
                       !.suggested_matches =
                           Take(SortedDesc(Range(@)), max_alternative_matches)]

should_continue_matching(state) ==
    IF state.match_found THEN "done" ELSE "continue"

EntryPoint == "isrc_match"

\* the graph with the fuzzy node wired before the ISWC node
NextNode_fuzzy_first(node, state) ==
    CASE node = "isrc_match" ->
            IF should_continue_matching(state) = "done"
            THEN "determine_outcome" ELSE "fuzzy_match"
      [] node = "fuzzy_match" ->
            IF should_continue_matching(state) = "done"
            THEN "determine_outcome" ELSE "iswc_match"
      [] node = "iswc_match" ->
            IF should_continue_matching(state) = "done"
            THEN "determine_outcome" ELSE "embedding_match"
      [] node = "embedding_match" -> "determine_outcome"
      [] node = "determine_outcome" -> "persist_result"
      [] node = "persist_result" -> "END"

\* add_conditional_edges / add_edge of _build_graph
NextNode(node, state) ==
    CASE node = "isrc_match" ->
            IF should_continue_matching(state) = "done"
            THEN "determine_outcome" ELSE "iswc_match"
      [] node = "iswc_match" ->
            IF should_continue_matching(state) = "done"
            THEN "determine_outcome" ELSE "fuzzy_match"
      [] node = "fuzzy_match" ->
            IF should_continue_matching(state) = "done"
            THEN "determine_outcome" ELSE "embedding_match"
      [] node = "embedding_match" -> "determine_outcome"
      [] node = "determine_outcome" -> "persist_result"
      [] node = "persist_result" -> "END"

----------------------------------------------------------------------------
(* Messages and rows *)

\* Raw messages on the raw topic. body: what the bytes are (a JSON document,
\* UTF-8 text that is no JSON, bytes that are no UTF-8); bad: a JSON payload on
\* which the normalizer raises
RawPayloads ==
    { [body |-> "json", isrc |-> "I1",  iswc |-> "T1",  title |-> NoVal, bad |-> FALSE],
      [body |-> "json", isrc |-> "IX",  iswc |-> "T1",  title |-> "ta",  bad |-> FALSE],
      [body |-> "json", isrc |-> NoVal, iswc |-> NoVal, title |-> "ta",  bad |-> FALSE],
      [body |-> "json", isrc |-> NoVal, iswc |-> NoVal, title |-> "tb",  bad |-> FALSE],
      [body |-> "json", isrc |-> NoVal, iswc |-> NoVal, title |-> "tc",  bad |-> FALSE],
      [body |-> "json", isrc |-> NoVal, iswc |-> NoVal, title |-> NoVal, bad |-> TRUE],
      [body |-> "not_json", isrc |-> NoVal, iswc |-> NoVal, title |-> NoVal, bad |-> FALSE],
      [body |-> "not_utf8", isrc |-> NoVal, iswc |-> NoVal, title |-> NoVal, bad |-> FALSE] }

\* json.loads(msg.value.decode("utf-8")) in consume(): the value, or the
\* exception raised
Deserialize(msg) ==
    CASE msg.body = "not_utf8" -> "UnicodeDecodeError"
      [] msg.body = "not_json" -> "JSONDecodeError"
      [] OTHER -> "value"

NoEvent ==
    [event_id |-> 0, isrc |-> NoVal, iswc |-> NoVal, reported_title |-> NoVal,
     content_embedding |-> NoVal]

\* str(uuid): the canonical text of an identifier, as it stands in a message key
str(id) == ToString(id)

\* normalizer.normalize: the event_id is a fresh uuid4 on every call
Normalize(raw, id) ==
    [event_id |-> id, isrc |-> raw.isrc, iswc |-> raw.iswc,
     reported_title |-> raw.title, content_embedding |-> NoVal]

\* The handler of the Usage Processor: where it stands (pc), the offset and the
\* event it handles; running is the module's shutdown flag; interrupted is the
\* offset whose handling the last crash cut short (0 if none).
UpIdle ==
    [pc |-> "idle", running |-> TRUE, offset |-> 0, ev |-> NoEvent, error |-> NoVal,
     db_attempts |-> 0, interrupted |-> 0]

\* initial_state of MatchingAgent.match
initial_state(event_data) ==
    [usage_event_id |-> event_data.event_id,
     isrc |-> event_data.isrc,
     iswc |-> event_data.iswc,
     title |-> event_data.reported_title,
     content_embedding |-> event_data.content_embedding,
     current_step |-> "start",
     match_attempts |-> <<>>,
     match_found |-> FALSE,
     work_id |-> NoVal,
     recording_id |-> NoVal,
     confidence |-> 0,
     match_method |-> NoVal,
     suggested_matches |-> <<>>,
     outcome |-> NoVal,
     error |-> NoVal]

\* The handler of the Matching Engine: where it stands (pc), the message it
\* handles, the MatchingState, and what this handling has done so far;
\* interrupted is as in UpIdle.
MeIdle ==
    [pc |-> "idle", running |-> TRUE, event_data |-> NoEvent,
     state |-> initial_state(NoEvent),
     raised_in |-> NoVal, published |-> {}, db_attempts |-> 0, interrupted |-> 0]

StrategyNodes == {"isrc_match", "iswc_match", "fuzzy_match", "embedding_match"}

\* Unique (usage_event_id, work_id) on matched_usage: part of the database
\* schema, which the ON CONFLICT clause of manual_match_event relies on.
MatchedUsageUniqueKey == TRUE

RowsFor(e, w) == { r \in matched_usage : r.usage_event_id = e /\ r.work_id = w }

----------------------------------------------------------------------------
(* Initial state *)

Init ==
    /\ rawLog \in [1..MaxRaw -> RawPayloads]
    /\ upPos = 0
    /\ upCommitted = 0
    /\ up = UpIdle
    /\ nextId = 1
    /\ usage_events = <<>>
    /\ normalized = <<>>
    /\ mePos = 0
    /\ meCommitted = 0
    /\ me = MeIdle
    /\ matched_usage = {}
    /\ nextRow = 1
    /\ matched = <<>>
    /\ unmatched = <<>>
    /\ dlq_matching = <<>>
    /\ dlq_processing = <<>>
    /\ env = 0

\* usage.raw holding a batch: several well-formed messages in one partition,
\* next to the single-message logs
BatchPayloads ==
    { p \in RawPayloads : /\ p.body = "json" /\ ~p.bad
                          /\ p.isrc = "I1" \/ (p.isrc = NoVal /\ p.title = "ta") }

BatchInit ==
    /\ rawLog \in [1..MaxBatch -> BatchPayloads] \cup [1..MaxRaw -> RawPayloads]
    /\ upPos = 0
    /\ upCommitted = 0
    /\ up = UpIdle
    /\ nextId = 1
    /\ usage_events = <<>>
    /\ normalized = <<>>
    /\ mePos = 0
    /\ meCommitted = 0
    /\ me = MeIdle
    /\ matched_usage = {}
    /\ nextRow = 1
    /\ matched = <<>>
    /\ unmatched = <<>>
    /\ dlq_matching = <<>>
    /\ dlq_processing = <<>>
    /\ env = 0

upVars == <<rawLog, upPos, upCommitted, up, nextId, dlq_processing>>
meVars == <<mePos, meCommitted, me, nextRow, matched, unmatched, dlq_matching>>

----------------------------------------------------------------------------
(* Usage Processor: usage_processor/src/main.py *)

\* run() that starts process_event without awaiting it
Awaited_not(worker) == TRUE

\* run(): "await self.process_event(...)" in the body of the "async for": the
\* loop asks consume() for the next message only when the handler has returned
Awaited(worker) == worker.pc = "idle"

\* generate_content_embedding: only with a title or an artist; a provider
\* failure is logged and leaves the embedding null
EmbeddingChoices(ev) ==
    IF ev.reported_title = NoVal THEN {NoVal}
    ELSE {ev.reported_title} \cup (IF env < MaxEnv THEN {NoVal} ELSE {})

\* _send_to_dlq: the record is sent, or the send raises and is only logged
\* (used: the environment events of the step before the send)
UPSendToDlq(offset, error, used) ==
    \/ /\ dlq_processing' = Append(dlq_processing, [offset |-> offset, error |-> error])
       /\ env' = env + used
    \/ /\ env + used < MaxEnv
       /\ env' = env + used + 1
       /\ UNCHANGED dlq_processing

\* consume(): getone() hands the next message to the run loop and advances the
\* position; process_event normalizes it and asks for its embedding
UPConsume ==
    /\ Awaited(up)
    /\ up.running
    /\ upPos < Len(rawLog)
    /\ Deserialize(rawLog[upPos + 1]) = "value"
    /\ ~rawLog[upPos + 1].bad
    /\ upPos' = upPos + 1
    /\ \E emb \in EmbeddingChoices(Normalize(rawLog[upPos + 1], nextId)) :
          /\ up' = [UpIdle EXCEPT !.pc = "persist",
                                  !.offset = upPos + 1,
                                  !.ev = [Normalize(rawLog[upPos + 1], nextId)
                                            EXCEPT !.content_embedding = emb]]
          /\ env' = IF rawLog[upPos + 1].title # NoVal /\ emb = NoVal
                    THEN env + 1 ELSE env
    /\ nextId' = nextId + 1
    /\ UNCHANGED <<rawLog, upCommitted, usage_events, normalized, dlq_processing>>
    /\ UNCHANGED <<meVars, matched_usage>>

\* the same, with a payload on which the normalizer raises: except branch of
\* process_event, which then returns
UPConsumeRaises ==
    /\ Awaited(up)
    /\ up.running
    /\ upPos < Len(rawLog)
    /\ Deserialize(rawLog[upPos + 1]) = "value"
    /\ rawLog[upPos + 1].bad
    /\ upPos' = upPos + 1
    /\ UPSendToDlq(upPos + 1, "normalize", 0)
    /\ up' = [UpIdle EXCEPT !.offset = upPos + 1, !.error = "normalize"]
    /\ UNCHANGED <<rawLog, upCommitted, nextId, usage_events, normalized>>
    /\ UNCHANGED <<meVars, matched_usage>>

NewUsageEvent(offset) ==
    [processing_status |-> "pending", processed_at |-> NoVal, raw |-> offset]

\* _persist_event without the commit: the session closes and the row is lost
PersistEvent_uncommitted(ev, offset) ==
    UNCHANGED usage_events

\* _persist_event: session.add + commit
PersistEvent(ev, offset) ==
    usage_events' = (ev.event_id :> NewUsageEvent(offset)) @@ usage_events

UPPersist ==
    /\ up.pc = "persist"
    /\ PersistEvent(up.ev, up.offset)
    /\ up' = [up EXCEPT !.pc = "publish", !.db_attempts = @ + 1]
    /\ UNCHANGED <<env, rawLog, upPos, upCommitted, nextId, normalized, dlq_processing>>
    /\ UNCHANGED <<meVars, matched_usage>>

\* the commit raises: nothing is inserted; except branch of process_event
UPPersistFails ==
    /\ up.pc = "persist"
    /\ env < MaxEnv
    /\ UPSendToDlq(up.offset, "persist", 1)
    /\ up' = [up EXCEPT !.pc = "idle", !.error = "persist", !.db_attempts = @ + 1]
    /\ UNCHANGED <<rawLog, upPos, upCommitted, nextId, usage_events, normalized>>
    /\ UNCHANGED <<meVars, matched_usage>>

\* _publish_normalized with a send that gives no key
NormalizedMessage_unkeyed(ev) ==
    [key |-> NoVal, event_id |-> ev.event_id, isrc |-> ev.isrc, iswc |-> ev.iswc,
     reported_title |-> ev.reported_title, content_embedding |-> ev.content_embedding]

\* _publish_normalized: the message on usage.normalized, the event's fields
\* under the key str(event_id)
NormalizedMessage(ev) ==
    [key |-> str(ev.event_id), event_id |-> ev.event_id, isrc |-> ev.isrc,
     iswc |-> ev.iswc, reported_title |-> ev.reported_title,
     content_embedding |-> ev.content_embedding]

\* _publish_normalized, then process_event returns
UPPublish ==
    /\ up.pc = "publish"
    /\ normalized' = Append(normalized, NormalizedMessage(up.ev))
    /\ up' = [up EXCEPT !.pc = "idle"]
    /\ UNCHANGED <<env, rawLog, upPos, upCommitted, nextId, usage_events, dlq_processing>>
    /\ UNCHANGED <<meVars, matched_usage>>

\* producer.send raises KafkaError: except branch of process_event
UPPublishFails ==
    /\ up.pc = "publish"
    /\ env < MaxEnv
    /\ UPSendToDlq(up.offset, "publish", 1)
    /\ up' = [up EXCEPT !.pc = "idle", !.error = "publish"]
    /\ UNCHANGED <<rawLog, upPos, upCommitted, nextId, usage_events, normalized>>
    /\ UNCHANGED <<meVars, matched_usage>>

\* enable_auto_commit=True: the consumer commits its position in the
\* background, on a timer, whatever the handler is doing. The committed offset
\* is read only when the group resumes, so the commits are taken at the
\* restart: the last one before it stored any position the consumer had
\* reached since it last resumed (or there was none).
AutoCommitted(committed, pos) == committed..pos

\* consume(): the body is no JSON; json.JSONDecodeError is caught, the message
\* is logged and skipped, and the loop fetches the next one
UPSkipMalformed ==
    /\ Awaited(up)
    /\ upPos < Len(rawLog)
    /\ Deserialize(rawLog[upPos + 1]) = "JSONDecodeError"
    /\ upPos' = upPos + 1
    /\ UNCHANGED <<env, rawLog, upCommitted, up, nextId, usage_events, normalized,
                   dlq_processing>>
    /\ UNCHANGED <<meVars, matched_usage>>

\* consume(): the body is no UTF-8; UnicodeDecodeError is neither a
\* JSONDecodeError, a TimeoutError nor a KafkaError, so it leaves consume() and
\* run(); main() logs "Fatal error", stops the consumer (which commits its
\* position) and the producer, and re-raises
UPUndecodable ==
    /\ Awaited(up)
    /\ upPos < Len(rawLog)
    /\ Deserialize(rawLog[upPos + 1]) = "UnicodeDecodeError"
    /\ upPos' = upPos + 1
    /\ upCommitted' = upPos + 1
    /\ up' = [UpIdle EXCEPT !.pc = "stopped", !.running = up.running,
                            !.offset = upPos + 1, !.error = "fatal"]
    /\ UNCHANGED <<env, rawLog, nextId, usage_events, normalized, dlq_processing>>
    /\ UNCHANGED <<meVars, matched_usage>>

\* signal_handler: SIGINT or SIGTERM clears the module's running flag
UPSignal ==
    /\ up.pc # "stopped"
    /\ up.running
    /\ env < MaxEnv
    /\ env' = env + 1
    /\ up' = [up EXCEPT !.running = FALSE]
    /\ UNCHANGED <<rawLog, upPos, upCommitted, nextId, usage_events, normalized,
                   dlq_processing>>
    /\ UNCHANGED <<meVars, matched_usage>>

\* run(): the flag is tested in the body of the loop, on the next message
\* consume() yields; the loop breaks without handling that message and main()
\* stops the consumer (which commits its position) and the producer
UPLeaveLoop ==
    /\ Awaited(up)
    /\ ~up.running
    /\ upPos < Len(rawLog)
    /\ Deserialize(rawLog[upPos + 1]) = "value"
    /\ upPos' = upPos + 1
    /\ upCommitted' = upPos + 1
    /\ up' = [up EXCEPT !.pc = "stopped"]
    /\ UNCHANGED <<env, rawLog, nextId, usage_events, normalized, dlq_processing>>
    /\ UNCHANGED <<meVars, matched_usage>>

\* consume(): no message within the 1 s timeout; asyncio.TimeoutError is caught
\* and the loop goes on while the consumer's own _running is set, which only
\* stop() clears
UPPollTimeout ==
    /\ Awaited(up)
    /\ upPos = Len(rawLog)
    /\ UNCHANGED vars

\* the worker process dies and is restarted: the handler's locals are lost and
\* the consumer group resumes at the committed offset
UPCrash ==
    /\ up.pc # "stopped"
    /\ env < MaxEnv
    /\ env' = env + 1
    /\ up' = [UpIdle EXCEPT !.interrupted = IF up.pc # "idle" THEN up.offset ELSE 0]
    /\ \E c \in AutoCommitted(upCommitted, upPos) :
          /\ upCommitted' = c
          /\ upPos' = c
    /\ UNCHANGED <<rawLog, nextId, usage_events, normalized, dlq_processing>>
    /\ UNCHANGED <<meVars, matched_usage>>

----------------------------------------------------------------------------
(* Matching Engine: matching_worker/src/main.py and agents/matching_agent.py *)

upAndTables == <<rawLog, upPos, upCommitted, up, nextId, dlq_processing,
                 usage_events, normalized>>

RunNode(node, state) ==
    CASE node = "isrc_match" -> try_isrc_match(state)
      [] node = "iswc_match" -> try_iswc_match(state)
      [] node = "fuzzy_match" -> try_fuzzy_match(state)
      [] node = "embedding_match" -> try_embedding_match(state)
      [] node = "determine_outcome" -> determine_outcome(state)

\* whether the node opens a session and queries the reference store
Queries(node, state) ==
    CASE node = "isrc_match" -> state.isrc # NoVal
      [] node = "iswc_match" -> ~state.match_found /\ state.iswc # NoVal
      [] node = "fuzzy_match" -> ~state.match_found /\ state.title # NoVal
      [] node = "embedding_match" ->
            ~state.match_found /\ state.content_embedding # NoVal
      [] OTHER -> FALSE

RECURSIVE GraphPath(_, _)
\* graph.ainvoke up to persist_result: the nodes run, each with the state it
\* is entered with; the state a node returns is computed once and handed on
GraphPath(node, state) ==
    IF node = "persist_result" THEN << [node |-> node, state |-> state] >>
    ELSE CHOOSE path \in
             { << [node |-> node, state |-> state] >>
                   \o GraphPath(NextNode(node, after), after) :
               after \in {RunNode(node, state)} } : TRUE

\* MatchingAgent.match, except branch: the graph raised; the result is the
\* initial state with outcome error (the attempts already appended stay in the
\* shared list)
MatchFailed(event_data, state, where) ==
    [initial_state(event_data) EXCEPT
        !.outcome = "error",
        !.error = where,
        !.match_attempts = state.match_attempts]

\* process_event after a handling that ended in error: the record goes to
\* dlq.matching and process_event returns
HandledWithError(event_data, state, where, used) ==
    /\ \E sent \in BOOLEAN :
          /\ ~sent => env + used < MaxEnv
          /\ env' = IF sent THEN env + used ELSE env + used + 1
          /\ dlq_matching' =
                IF sent
                THEN Append(dlq_matching, [key |-> str(event_data.event_id), error |-> where])
                ELSE dlq_matching
          /\ me' = [MeIdle EXCEPT
                       !.running = me.running,
                       !.event_data = event_data,
                       !.state = state,
                       !.raised_in = where,
                       !.db_attempts =
                           IF where \in {"persist_result", "integrity_error"}
                           THEN me.db_attempts + 1 ELSE me.db_attempts,
                       !.published = IF sent THEN {"dlq"} ELSE {}]

\* consume() hands the next normalized event to the run loop; process_event
\* runs the graph from its entry point. The strategy nodes and determine_outcome
\* only read the reference store and write the local MatchingState.
MEConsume ==
    /\ Awaited(me)
    /\ me.running
    /\ mePos < Len(normalized)
    /\ mePos' = mePos + 1
    /\ \E path \in {GraphPath(EntryPoint, initial_state(normalized[mePos + 1]))} :
          \E suggested \in RowOrders(path[Len(path)].state.suggested_matches) :
              me' = [MeIdle EXCEPT !.pc = "persist_result",
                                   !.event_data = normalized[mePos + 1],
                                   !.state = [path[Len(path)].state EXCEPT
                                                 !.suggested_matches = suggested]]
    /\ UNCHANGED <<env, meCommitted, nextRow, matched, unmatched, dlq_matching,
                   matched_usage>>
    /\ UNCHANGED upAndTables

\* the same, but a query of one of the strategies raises (database error):
\* nothing catches it below MatchingAgent.match, and process_event takes its
\* error branch
MEConsumeRaises ==
    /\ Awaited(me)
    /\ me.running
    /\ mePos < Len(normalized)
    /\ env < MaxEnv
    /\ mePos' = mePos + 1
    /\ LET ev == normalized[mePos + 1]
           path == GraphPath(EntryPoint, initial_state(ev))
       IN  \E i \in 1..Len(path) :
              /\ Queries(path[i].node, path[i].state)
              /\ HandledWithError(ev, MatchFailed(ev, path[i].state, path[i].node),
                                  path[i].node, 1)
    /\ UNCHANGED <<meCommitted, nextRow, matched, unmatched, matched_usage>>
    /\ UNCHANGED upAndTables

SystemRow(state, id) ==
    [id |-> id,
     usage_event_id |-> state.usage_event_id,
     work_id |-> state.work_id,
     recording_id |-> state.recording_id,
     match_confidence |-> state.confidence,
     match_method |-> state.match_method,
     matched_by |-> "system",
     is_confirmed |-> FALSE]

WritesRow(state) == state.outcome = "matched" /\ state.work_id # NoVal

\* the INSERT of persist_result violates the unique key
Conflicts(state) ==
    /\ MatchedUsageUniqueKey
    /\ state.usage_event_id \in DOMAIN usage_events
    /\ WritesRow(state)
    /\ RowsFor(state.usage_event_id, state.work_id) # {}

\* persist_result that updates the status but never adds the matched_usage row
PersistResult_status_only(state) ==
    /\ IF state.usage_event_id \in DOMAIN usage_events
       THEN usage_events' =
              [usage_events EXCEPT ![state.usage_event_id] =
                  [@ EXCEPT !.processing_status = state.outcome,
                            !.processed_at = "stamped"]]
       ELSE UNCHANGED usage_events
    /\ UNCHANGED <<matched_usage, nextRow>>

\* persist_result: one transaction (status, processed_at and the row)
PersistResult(state) ==
    IF state.usage_event_id \in DOMAIN usage_events
    THEN /\ usage_events' =
              [usage_events EXCEPT ![state.usage_event_id] =
                  [@ EXCEPT !.processing_status = state.outcome,
                            !.processed_at = "stamped"]]
         /\ IF WritesRow(state)
            THEN /\ matched_usage' = matched_usage \cup {SystemRow(state, nextRow)}
                 /\ nextRow' = nextRow + 1
            ELSE UNCHANGED <<matched_usage, nextRow>>
    ELSE UNCHANGED <<usage_events, matched_usage, nextRow>>

MEPersistResult ==
    /\ me.pc = "persist_result"
    /\ ~Conflicts(me.state)
    /\ PersistResult(me.state)
    /\ me' = [me EXCEPT !.state.current_step = "persist_result",
                        !.pc = "handle_outcome",
                        !.db_attempts = @ + 1]
    /\ UNCHANGED <<env, mePos, meCommitted, matched, unmatched, dlq_matching>>
    /\ UNCHANGED <<rawLog, upPos, upCommitted, up, nextId, dlq_processing, normalized>>

\* the commit of persist_result raises IntegrityError (the pair is already
\* there): the transaction is rolled back, the graph raises, and process_event
\* takes its error branch
MEPersistConflict ==
    /\ me.pc = "persist_result"
    /\ Conflicts(me.state)
    /\ HandledWithError(me.event_data,
                        MatchFailed(me.event_data, me.state, "integrity_error"),
                        "integrity_error", 0)
    /\ UNCHANGED <<mePos, meCommitted, nextRow, matched, unmatched, matched_usage>>
    /\ UNCHANGED upAndTables

\* the database fails in persist_result: nothing is committed, the graph
\* raises, and process_event takes its error branch
MEPersistRaises ==
    /\ me.pc = "persist_result"
    /\ env < MaxEnv
    /\ HandledWithError(me.event_data,
                        MatchFailed(me.event_data, me.state, "persist_result"),
                        "persist_result", 1)
    /\ UNCHANGED <<mePos, meCommitted, nextRow, matched, unmatched, matched_usage>>
    /\ UNCHANGED upAndTables

MatchedUsageEvent(event_data, result) ==
    [key |-> str(event_data.event_id),
     usage_event_id |-> event_data.event_id,
     work_id |-> result.work_id,
     recording_id |-> result.recording_id,
     match_confidence |-> result.confidence,
     match_method |-> result.match_method]

UnmatchedUsageEvent(event_data, result) ==
    [key |-> str(event_data.event_id),
     usage_event_id |-> event_data.event_id,
     suggested_matches |-> result.suggested_matches,
     reason |-> "no_confident_match"]

\* process_event: the branch on result["outcome"], with a producer that
\* works; then process_event returns
MEHandleOutcome ==
    /\ me.pc = "handle_outcome"
    /\ IF me.state.outcome = "matched"
       THEN /\ matched' = Append(matched, MatchedUsageEvent(me.event_data, me.state))
            /\ UNCHANGED unmatched
       ELSE /\ unmatched' = Append(unmatched, UnmatchedUsageEvent(me.event_data, me.state))
            /\ UNCHANGED matched
    /\ me' = [me EXCEPT !.pc = "idle", !.published = {me.state.outcome}]
    /\ UNCHANGED <<env, mePos, meCommitted, nextRow, dlq_matching, matched_usage>>
    /\ UNCHANGED upAndTables

\* _publish_matched / _publish_unmatched raises: except branch of process_event
MEPublishRaises ==
    /\ me.pc = "handle_outcome"
    /\ env < MaxEnv
    /\ HandledWithError(me.event_data, me.state, "publish", 1)
    /\ UNCHANGED <<mePos, meCommitted, nextRow, matched, unmatched, matched_usage>>
    /\ UNCHANGED upAndTables

\* signal_handler of the matching worker
MESignal ==
    /\ me.pc # "stopped"
    /\ me.running
    /\ env < MaxEnv
    /\ env' = env + 1
    /\ me' = [me EXCEPT !.running = FALSE]
    /\ UNCHANGED <<mePos, meCommitted, nextRow, matched, unmatched, dlq_matching,
                   matched_usage>>
    /\ UNCHANGED upAndTables

\* run() of the matching worker: as UPLeaveLoop
MELeaveLoop ==
    /\ Awaited(me)
    /\ ~me.running
    /\ mePos < Len(normalized)
    /\ mePos' = mePos + 1
    /\ meCommitted' = mePos + 1
    /\ me' = [me EXCEPT !.pc = "stopped"]
    /\ UNCHANGED <<env, nextRow, matched, unmatched, dlq_matching, matched_usage>>
    /\ UNCHANGED upAndTables

\* consume(): no message within the 1 s timeout (as UPPollTimeout)
MEPollTimeout ==
    /\ Awaited(me)
    /\ mePos = Len(normalized)
    /\ UNCHANGED vars

\* the worker process dies and is restarted (as UPCrash)
MECrash ==
    /\ me.pc # "stopped"
    /\ env < MaxEnv
    /\ env' = env + 1
    /\ me' = [MeIdle EXCEPT !.interrupted = IF me.pc # "idle" THEN mePos ELSE 0]
    /\ \E c \in AutoCommitted(meCommitted, mePos) :
          /\ meCommitted' = c
          /\ mePos' = c
    /\ UNCHANGED <<nextRow, matched, unmatched, dlq_matching, matched_usage>>
    /\ UNCHANGED upAndTables

----------------------------------------------------------------------------
(* Manual match: ai/src/routers/usage.py *)

ManualRow(e, w, id) ==
    [id |-> id, usage_event_id |-> e, work_id |-> w, recording_id |-> NoVal,
     match_confidence |-> 100, match_method |-> "manual", matched_by |-> "api",
     is_confirmed |-> TRUE]

\* the upsert with a DO UPDATE that sets the method only
UpsertManual_method_only(rows, e, w, id) ==
    IF \E r \in rows : r.usage_event_id = e /\ r.work_id = w
    THEN { IF r.usage_event_id = e /\ r.work_id = w
           THEN [r EXCEPT !.match_method = "manual"]
           ELSE r : r \in rows }
    ELSE rows \cup {ManualRow(e, w, id)}

\* INSERT ... ON CONFLICT (usage_event_id, work_id) DO UPDATE SET ...
UpsertManual(rows, e, w, id) ==
    IF \E r \in rows : r.usage_event_id = e /\ r.work_id = w
    THEN { IF r.usage_event_id = e /\ r.work_id = w
           THEN [r EXCEPT !.match_confidence = 100, !.match_method = "manual",
                          !.is_confirmed = TRUE]
           ELSE r : r \in rows }
    ELSE rows \cup {ManualRow(e, w, id)}

\* the works that manual-match requests name
RequestedWorks == {"W1", "W2"}

\* POST /usage/manual-match for an existing event and an existing work (any
\* other request ends in 404 and changes nothing)
manual_match_event ==
    /\ env < MaxEnv
    /\ env' = env + 1
    /\ \E e \in DOMAIN usage_events, w \in RequestedWorks \cap WorkIds :
          /\ matched_usage' = UpsertManual(matched_usage, e, w, nextRow)
          /\ nextRow' = IF RowsFor(e, w) = {} THEN nextRow + 1 ELSE nextRow
          /\ usage_events' = [usage_events EXCEPT ![e] =
                                [@ EXCEPT !.processing_status = "matched",
                                          !.processed_at = "stamped"]]
    /\ UNCHANGED <<rawLog, upPos, upCommitted, up, nextId, dlq_processing, normalized,
                   mePos, meCommitted, me, matched, unmatched, dlq_matching>>

----------------------------------------------------------------------------

Next ==
    \/ UPConsume \/ UPConsumeRaises
    \/ UPPersist \/ UPPersistFails \/ UPPublish \/ UPPublishFails
    \/ UPSkipMalformed \/ UPUndecodable
    \/ UPSignal \/ UPLeaveLoop \/ UPPollTimeout
    \/ UPCrash
    \/ MEConsume \/ MEConsumeRaises
    \/ MEPersistResult \/ MEPersistConflict \/ MEPersistRaises
    \/ MEHandleOutcome \/ MEPublishRaises
    \/ MESignal \/ MELeaveLoop \/ MEPollTimeout
    \/ MECrash
    \/ manual_match_event

Spec == Init /\ [][Next]_vars

\* The steps each worker takes on its own: the event loop runs a worker that
\* can take a step. Failures, crashes, signals and requests are not owed.
UPStep ==
    \/ UPConsume \/ UPConsumeRaises \/ UPPersist \/ UPPublish
    \/ UPSkipMalformed \/ UPUndecodable \/ UPLeaveLoop \/ UPPollTimeout

MEStep ==
    \/ MEConsume \/ MEPersistResult \/ MEHandleOutcome
    \/ MELeaveLoop \/ MEPollTimeout

BatchSpec == BatchInit /\ [][Next]_vars

FairSpec == Spec /\ WF_vars(UPStep) /\ WF_vars(MEStep)

----------------------------------------------------------------------------
(* Properties *)

Handled == me.pc = "idle" /\ me.event_data # NoEvent

Terminal == {"matched", "unmatched", "error"}

\* C1. Cascade monotonicity: of the attempts of one handling, only the last
\* one can be an accepting one; once a strategy has accepted, no later
\* strategy is consulted.
C1_CascadeMonotonicity ==
    \A i \in 1..Len(me.state.match_attempts) :
        me.state.match_attempts[i].success => i = Len(me.state.match_attempts)

\* an ISWC hit after an ISRC miss, for an event that also has a title and an
\* embedding: the fuzzy and the vector strategies are not consulted
C1_Witness ==
    /\ me.state.match_found
    /\ me.state.title # NoVal
    /\ me.state.content_embedding # NoVal
    /\ Len(me.state.match_attempts) = 2
    /\ ~me.state.match_attempts[1].success
    /\ me.state.match_attempts[2] = Attempt("iswc_exact", TRUE)

StrategyOrder == <<"isrc_match", "iswc_match", "fuzzy_match", "embedding_match">>

\* what each strategy yields for an event on its own: a result at or above
\* its threshold, or none
StrategyResult(node, ev) ==
    CASE node = "isrc_match" -> IsrcMatcher_match(ev.isrc)
      [] node = "iswc_match" -> IswcMatcher_match(ev.iswc)
      [] node = "fuzzy_match" -> FuzzyMatcher_get_best_match(ev.reported_title)
      [] node = "embedding_match" ->
            EmbeddingMatcher_get_best_match(ev.content_embedding)

\* C2. The accepted match is the result of the first strategy, in the order
\* ISRC, ISWC, fuzzy, vector, that yields a result for the event; an event
\* whose ISRC hits a recording of W1 and whose ISWC hits W2 goes to W1 by
\* isrc_exact.
C2_FirstAcceptingStrategy ==
    me.state.outcome = "matched" =>
        /\ \E i \in 1..Len(StrategyOrder) :
              /\ \A j \in 1..(i-1) :
                    StrategyResult(StrategyOrder[j], me.event_data) = NoResult
              /\ LET result == StrategyResult(StrategyOrder[i], me.event_data)
                 IN  /\ result # NoResult
                     /\ me.state.work_id = result.work_id
                     /\ me.state.match_method = result.method
                     /\ me.state.confidence = result.confidence
        /\ (me.event_data.isrc = "I1" /\ me.event_data.iswc = "T1") =>
              (me.state.work_id = "W1" /\ me.state.match_method = "isrc_exact")

C2_Witness ==
    /\ me.state.outcome = "matched"
    /\ me.event_data.isrc = "I1"
    /\ me.event_data.iswc = "T1"
    /\ IswcMatcher_match(me.event_data.iswc).work_id = "W2"
    /\ me.state.work_id = "W1"
    /\ me.state.match_method = "isrc_exact"

\* C3. Status closure: once the Matching Engine has handled an event, the
\* event's row has a status in {matched, unmatched, error} and a processed_at.
C3_StatusClosure ==
    Handled =>
        /\ me.event_data.event_id \in DOMAIN usage_events
        /\ usage_events[me.event_data.event_id].processing_status \in Terminal
        /\ usage_events[me.event_data.event_id].processed_at # NoVal

\* C4. Upsert uniqueness: matched_usage holds at most one row per
\* (usage_event_id, work_id), and a second write for an existing pair does
\* not fail.
C4_UpsertUniqueness ==
    /\ \A r1, r2 \in matched_usage :
          (r1.usage_event_id = r2.usage_event_id /\ r1.work_id = r2.work_id) => r1 = r2
    /\ me.raised_in # "integrity_error"

\* C5. Every message on usage.normalized carries the event_id of a committed
\* usage_events row.
C5_RowBeforeNormalized ==
    \A i \in 1..Len(normalized) : normalized[i].event_id \in DOMAIN usage_events

\* a published event whose row still is as the Usage Processor inserted it
C5_Witness ==
    /\ Len(normalized) >= 1
    /\ normalized[1].event_id \in DOMAIN usage_events
    /\ usage_events[normalized[1].event_id].processing_status = "pending"

SystemRowFor(e, w) ==
    \E r \in matched_usage :
        /\ r.usage_event_id = e
        /\ r.work_id = w
        /\ r.matched_by = "system"
        /\ (r.is_confirmed = FALSE \/ r.match_method = "manual")

\* C6. A step that publishes (E, W) to usage.matched starts in a state where
\* the matched_usage row (E, W) written by the system is committed and E has
\* status matched and a processed_at; the system writes its row unconfirmed,
\* together with the status; and every message on usage.matched has its row
\* and its status.
C6_MatchedAfterCommit ==
    /\ [][ Len(matched') > Len(matched) =>
             LET m == matched'[Len(matched')]
             IN  /\ SystemRowFor(m.usage_event_id, m.work_id)
                 /\ m.usage_event_id \in DOMAIN usage_events
                 /\ usage_events[m.usage_event_id].processing_status = "matched"
                 /\ usage_events[m.usage_event_id].processed_at # NoVal ]_vars
    /\ [][ \A r \in matched_usage' :
             (r.matched_by = "system" /\ r.id \notin { x.id : x \in matched_usage }) =>
                 /\ r.is_confirmed = FALSE
                 /\ usage_events'[r.usage_event_id].processing_status = "matched"
                 /\ usage_events'[r.usage_event_id].processed_at # NoVal ]_vars
    /\ [](\A i \in 1..Len(matched) :
             /\ SystemRowFor(matched[i].usage_event_id, matched[i].work_id)
             /\ usage_events[matched[i].usage_event_id].processing_status = "matched"
             /\ usage_events[matched[i].usage_event_id].processed_at # NoVal)

C6_Witness ==
    /\ Len(matched) >= 1
    /\ \E r \in matched_usage :
          /\ r.usage_event_id = matched[1].usage_event_id
          /\ r.work_id = matched[1].work_id
          /\ r.matched_by = "system"
          /\ ~r.is_confirmed
    /\ usage_events[matched[1].usage_event_id].processing_status = "matched"

\* C7. A handling that met an unexpected error leaves the event with status
\* error and one record on dlq.matching, and has published nothing to
\* usage.matched or usage.unmatched.
C7_ErrorRouting ==
    (Handled /\ me.raised_in # NoVal) =>
        /\ me.event_data.event_id \in DOMAIN usage_events
        /\ usage_events[me.event_data.event_id].processing_status = "error"
        /\ me.published = {"dlq"}

\* C8. An exception raised inside a strategy counts as that strategy yielding
\* no result: the handling still ends matched or unmatched.
C8_StrategyErrorContinues ==
    (Handled /\ me.raised_in \in StrategyNodes) =>
        me.state.outcome \in {"matched", "unmatched"}

\* C9. The offset of a message is not committed before its handler has
\* returned: a message whose handling was cut short by a crash is fetched again
\* when the worker resumes.
C9_CommitAfterHandler ==
    /\ up.interrupted > 0 => upCommitted < up.interrupted
    /\ me.interrupted > 0 => meCommitted < me.interrupted

\* C10. Re-delivery of a raw message adds no second usage_events row: there
\* is at most one row per raw message.
C10_RedeliveryIdempotent ==
    \A e1, e2 \in DOMAIN usage_events :
        usage_events[e1].raw = usage_events[e2].raw => e1 = e2

\* C11. processing_status is monotone: a status in {matched, unmatched, error}
\* is never replaced by a different status, whatever step is taken (an insert
\* of the Usage Processor, a handling by the Matching Engine, a manual match).
C11_StatusMonotone ==
    [][ \A e \in DOMAIN usage_events :
          usage_events[e].processing_status \in Terminal =>
              usage_events'[e].processing_status = usage_events[e].processing_status
      ]_vars

\* the store holds more candidates at or above the review threshold than the
\* suggestion bound, for some embedding
ReviewCandidates(embedding) ==
    { w \in Work : /\ w.has_embedding
                   /\ w.status = "active"
                   /\ CosineSimilarity(embedding, w.id) >= manual_review_threshold }

\* C12 (as amended). Suggestion bound: every usage.unmatched message carries at
\* most max_alternative_matches suggestions, in order of confidence, highest
\* first; suggestions of equal confidence may follow each other.
C12_SuggestionBound ==
    \A i \in 1..Len(unmatched) :
        LET sm == unmatched[i].suggested_matches
        IN  /\ Len(sm) <= max_alternative_matches
            /\ \A j \in 1..(Len(sm) - 1) : sm[j].confidence >= sm[j+1].confidence

\* an unmatched message with a full list of suggestions, cut from a larger set
\* of candidates
C12_Witness ==
    \E i \in 1..Len(unmatched) :
        /\ Len(unmatched[i].suggested_matches) = max_alternative_matches
        /\ \E j \in 1..Len(normalized) :
              /\ normalized[j].event_id = unmatched[i].usage_event_id
              /\ Cardinality(ReviewCandidates(normalized[j].content_embedding))
                    > max_alternative_matches

\* C12 (as stated). The suggestions are at most max_alternative_matches and
\* strictly descending in confidence.
C12_StrictlyDescending ==
    \A i \in 1..Len(unmatched) :
        LET sm == unmatched[i].suggested_matches
        IN  /\ Len(sm) <= max_alternative_matches
            /\ \A j \in 1..(Len(sm) - 1) : sm[j].confidence > sm[j+1].confidence

\* C13 (as stated). A message whose body is not valid UTF-8 JSON never crashes
\* the consumer: no message that fails to deserialize leaves the worker
\* stopped on a fatal error, and none of them gets a handler.
C13_MalformedNeverCrashes ==
    \A i \in 1..Len(rawLog) :
        Deserialize(rawLog[i]) # "value" =>
            ~ (up.offset = i /\ up.pc = "stopped" /\ up.error = "fatal")

\* C14 (as stated). When the normalizer raised for a raw message, the handler
\* has returned with that message's payload on dlq.usage.processing, no row
\* for it in usage_events and nothing of it on usage.normalized.
C14_NormalizerFailureRouted ==
    (up.pc = "idle" /\ up.error = "normalize") =>
        /\ \E i \in 1..Len(dlq_processing) : dlq_processing[i].offset = up.offset
        /\ \A e \in DOMAIN usage_events : rawLog[usage_events[e].raw].bad = FALSE
        /\ \A i \in 1..Len(normalized) :
              normalized[i].event_id \in DOMAIN usage_events

\* an event whose embedding the provider failed to deliver: it has the title
\* the embedding is made from, and no embedding
EmbeddingFailed(ev) ==
    ev # NoEvent /\ ev.reported_title # NoVal /\ ev.content_embedding = NoVal

\* C15. An event whose embedding failed is handled as any other: it is on
\* usage.normalized only with its row in usage_events, and the Matching Engine
\* records no attempt of the vector strategy for it and decides matched or
\* unmatched by the ISRC, ISWC and fuzzy strategies alone.
C15_EmbeddingFailureDegrades ==
    /\ \A i \in 1..Len(normalized) :
          EmbeddingFailed(normalized[i]) =>
              normalized[i].event_id \in DOMAIN usage_events
    /\ (EmbeddingFailed(me.event_data) /\ me.state.outcome \in {"matched", "unmatched"}) =>
          /\ \A k \in 1..Len(me.state.match_attempts) :
                me.state.match_attempts[k].method # "ai_embedding"
          /\ me.state.match_method # "ai_embedding"
          /\ \A k \in 1..Len(me.state.suggested_matches) :
                me.state.suggested_matches[k].method # "ai_embedding"
          /\ me.state.outcome = "matched" <=>
                \E k \in 1..3 : StrategyResult(StrategyOrder[k], me.event_data) # NoResult

\* an event the vector strategy would have matched by its title's embedding
\* went out unmatched because the embedding had failed
C15_Witness ==
    /\ Handled
    /\ EmbeddingFailed(me.event_data)
    /\ EmbeddingMatcher_get_best_match(me.event_data.reported_title) # NoResult
    /\ me.state.outcome = "unmatched"
    /\ me.published = {"unmatched"}
    /\ me.event_data.event_id \in DOMAIN usage_events

\* C16 (as stated). An event is dead-lettered for a database error only after
\* its persistence operation was tried max_retries times, and then its row
\* has status error.
C16_RetriedBeforeDeadLetter ==
    /\ (up.pc = "idle" /\ up.error = "persist") => up.db_attempts >= max_retries
    /\ (Handled /\ me.raised_in = "persist_result") =>
          /\ me.db_attempts >= max_retries
          /\ usage_events[me.event_data.event_id].processing_status = "error"

\* C17 (as stated). A handler whose database write succeeded does not return
\* before its event is published: the event of a returned Usage Processor
\* handler with a row is on usage.normalized, and a returned Matching Engine
\* handler whose persist_result committed has published its outcome.
C17_PublishNotAbandoned ==
    /\ (up.pc = "idle" /\ up.ev # NoEvent /\ up.ev.event_id \in DOMAIN usage_events) =>
          \E i \in 1..Len(normalized) : normalized[i].event_id = up.ev.event_id
    /\ (Handled /\ me.db_attempts > 0
               /\ me.raised_in \notin {"persist_result", "integrity_error"}) =>
          me.published = {me.state.outcome}

\* C18 (as stated). Once a signal has cleared a worker's running flag, the
\* worker eventually leaves its consumer loop and stops its consumer and
\* producer (or the process has died and was started afresh), whether or not
\* a further message arrives.
C18_SignalStopsWorker ==
    /\ (~up.running) ~> (up.pc = "stopped" \/ up.running)
    /\ (~me.running) ~> (me.pc = "stopped" \/ me.running)

\* C19. Each worker takes the messages of its partition in offset order and
\* one at a time: the position moves forward only by one, only when the
\* previous handler has returned, and a handling that starts is that of the
\* message just fetched.
C19_InOrderOneAtATime ==
    [][ /\ upPos' > upPos => (up.pc = "idle" /\ upPos' = upPos + 1)
        /\ (up'.offset # 0 /\ (up'.offset # up.offset \/ up'.ev # up.ev)) =>
              /\ up.pc = "idle"
              /\ upPos' = upPos + 1
              /\ up'.offset = upPos'
        /\ mePos' > mePos => (me.pc = "idle" /\ mePos' = mePos + 1)
        /\ (me'.event_data # NoEvent /\ me'.event_data # me.event_data) =>
              /\ me.pc = "idle"
              /\ mePos' = mePos + 1
              /\ me'.event_data = normalized[mePos']
      ]_vars

\* both messages of a batch went through the Usage Processor in order, and
\* the Matching Engine is at the second with the first one's outcome published
C19_Witness ==
    /\ Len(rawLog) = 2
    /\ up.pc = "idle" /\ up.offset = 2 /\ env = 0
    /\ Len(normalized) = 2
    /\ usage_events[normalized[1].event_id].raw = 1
    /\ usage_events[normalized[2].event_id].raw = 2
    /\ me.pc = "persist_result"
    /\ mePos = 2
    /\ me.event_data = normalized[2]
    /\ \/ \E i \in 1..Len(matched) : matched[i].usage_event_id = normalized[1].event_id
       \/ \E i \in 1..Len(unmatched) : unmatched[i].usage_event_id = normalized[1].event_id

\* C20. The messages of one event carry one key: a message on usage.normalized
\* has the text of its event_id as key, and that event_id is a primary key of
\* usage_events; a message on usage.matched or usage.unmatched has the text of
\* its usage_event_id as key, and it is the key and the event_id of a message
\* on usage.normalized.
C20_OneKeyPerEvent ==
    /\ \A i \in 1..Len(normalized) :
          /\ normalized[i].event_id \in DOMAIN usage_events
          /\ normalized[i].key = str(normalized[i].event_id)
    /\ \A out \in Range(matched) \cup Range(unmatched) :
          /\ out.key = str(out.usage_event_id)
          /\ out.usage_event_id \in DOMAIN usage_events
          /\ \E i \in 1..Len(normalized) :
                /\ normalized[i].event_id = out.usage_event_id
                /\ normalized[i].key = out.key

\* a second event's outcome is published, under a key that differs from the
\* first event's
C20_Witness ==
    /\ Len(normalized) = 2
    /\ normalized[1].key # normalized[2].key
    /\ \E out \in Range(matched) \cup Range(unmatched) :
          /\ out.key = normalized[2].key
          /\ out.usage_event_id = normalized[2].event_id
          /\ out.usage_event_id \in DOMAIN usage_events

\* C21. Every matched_usage row whose match_method is manual has
\* match_confidence 1.0 and is_confirmed set, whether the manual match
\* inserted the row or updated a row the Matching Engine had written.
C21_ManualRowsConfirmed ==
    \A r \in matched_usage :
        r.match_method = "manual" =>
            (r.match_confidence = 100 /\ r.is_confirmed)

\* a manual match has updated a system row: the row keeps matched_by system
\* and its recording, and is now manual and confirmed
C21_Witness ==
    \E r \in matched_usage :
        /\ r.match_method = "manual"
        /\ r.matched_by = "system"
        /\ r.is_confirmed
        /\ r.match_confidence = 100

----------------------------------------------------------------------------
(* Normalizers: usage_processor/src/normalizers.  The pipeline above carries *)
(* identifiers as abstract keys; here a raw payload is the dict the handler  *)
(* receives and normalize is computed field by field.                        *)

\* Values of a JSON document / Python object. A string is the sequence of its
\* parts, single characters where the code looks at them; a float or Decimal
\* is given in hundredths.
PyNone == [t |-> "None"]
PyInt(n) == [t |-> "int", v |-> n]
PyFloat(h) == [t |-> "float", v |-> h]
PyStr(s) == [t |-> "str", v |-> s]

\* in place of a value: the expression raised an exception
PyRaise == [t |-> "raise"]

\* truth value of an object: None, 0 and "" are false
Truthy(x) ==
    CASE x.t = "None" -> FALSE
      [] x.t = "int" -> x.v # 0
      [] x.t = "float" -> x.v # 0
      [] x.t = "str" -> x.v # <<>>

\* a or b
Or(a, b) == IF Truthy(a) THEN a ELSE b

\* raw_data.get(key) and raw_data.get(key, default)
get(raw_data, key) ==
    IF key \in DOMAIN raw_data THEN raw_data[key] ELSE PyNone

\* dict.get with the default left out
get_default_none(raw_data, key, default) == get(raw_data, key)

get_default(raw_data, key, default) ==
    IF key \in DOMAIN raw_data THEN raw_data[key] ELSE default

\* str.upper(), character by character
UpperChar(c) ==
    CASE c = "x" -> "X"
      [] c = "y" -> "Y"
      [] c = "t" -> "T"
      [] OTHER -> c

upper(s) == [i \in 1..Len(s) |-> UpperChar(s[i])]

\* str.replace(old, ""), for a one-character old
replace(s, old) == SelectSeq(s, LAMBDA c : c # old)

Whitespace == {" ", "\t"}

\* str.strip()
RECURSIVE lstrip(_)
lstrip(s) == IF s # <<>> /\ Head(s) \in Whitespace THEN lstrip(Tail(s)) ELSE s

RECURSIVE rstrip(_)
rstrip(s) ==
    IF s # <<>> /\ s[Len(s)] \in Whitespace THEN rstrip(SubSeq(s, 1, Len(s) - 1)) ELSE s

strip(s) == rstrip(lstrip(s))

\* the length an ISRC must have
IsrcLength == 12

\* _clean_isrc without the upper-casing
_clean_isrc_keep_case(isrc) ==
    IF ~Truthy(isrc) THEN PyNone
    ELSE IF isrc.t # "str" THEN PyRaise
    ELSE LET cleaned == replace(replace(isrc.v, " "), "-")
         IN  IF Len(cleaned) = IsrcLength THEN PyStr(cleaned) ELSE PyNone

\* BaseNormalizer._clean_isrc; a number has no replace (AttributeError)
_clean_isrc(isrc) ==
    IF ~Truthy(isrc) THEN PyNone
    ELSE IF isrc.t # "str" THEN PyRaise
    ELSE LET cleaned == upper(replace(replace(isrc.v, " "), "-"))
         IN  IF Len(cleaned) = IsrcLength THEN PyStr(cleaned) ELSE PyNone

\* BaseNormalizer._clean_string
_clean_string(value) ==
    IF ~Truthy(value) THEN PyNone
    ELSE IF value.t # "str" THEN PyRaise
    ELSE IF strip(value.v) # <<>> THEN PyStr(strip(value.v)) ELSE PyNone

\* IsrcMatcher.match: the key the recordings are searched for
IsrcMatcher_cleaned_isrc(isrc) ==
    IF ~Truthy(isrc) THEN PyNone
    ELSE LET cleaned_isrc == upper(replace(replace(isrc.v, " "), "-"))
         IN  IF Len(cleaned_isrc) # IsrcLength THEN PyNone ELSE PyStr(cleaned_isrc)

\* int(x): an int as it is, a float truncated towards zero; the strings of
\* the model are no numerals (ValueError), None gives TypeError
int(x) ==
    CASE x.t = "int" -> x
      [] x.t = "float" ->
            PyInt(IF x.v >= 0 THEN x.v \div 100 ELSE -((-x.v) \div 100))
      [] OTHER -> PyRaise

\* float(x)
float(x) ==
    CASE x.t = "int" -> PyFloat(100 * x.v)
      [] x.t = "float" -> x
      [] OTHER -> PyRaise

\* Decimal(str(x)): the same number; InvalidOperation for a string that is no
\* numeral
Decimal(x) ==
    CASE x.t = "int" -> PyFloat(100 * x.v)
      [] x.t = "float" -> x
      [] OTHER -> PyRaise

\* "Decimal(str(revenue)) if revenue else None"
revenue_amount(revenue) ==
    IF revenue.t = "raise" THEN PyRaise
    ELSE IF Truthy(revenue) THEN Decimal(revenue) ELSE PyNone

USD == PyStr(<<"U", "S", "D">>)

\* Topics and Topics.source_from_topic
RAW_SPOTIFY == "usage.raw.spotify"
RAW_APPLE_MUSIC == "usage.raw.apple_music"
RAW_RADIO == "usage.raw.radio"
RAW_GENERIC == "usage.raw.generic"

source_from_topic(topic) ==
    CASE topic = RAW_SPOTIFY -> "spotify"
      [] topic = RAW_APPLE_MUSIC -> "apple_music"
      [] topic = RAW_RADIO -> "radio"
      [] topic = RAW_GENERIC -> "generic"
      [] OTHER -> "unknown"

\* get_normalizer: NORMALIZERS.get(source, GenericNormalizer)
get_normalizer(source) ==
    CASE source = "spotify" -> "SpotifyNormalizer"
      [] source = "apple_music" -> "AppleMusicNormalizer"
      [] OTHER -> "GenericNormalizer"

\* NormalizedUsageEvent(...): pydantic checks the types of the fields given;
\* a field that raised, or a value of the wrong type, fails the whole call
NormalizedUsageEvent(source, isrc, iswc, reported_title, play_count, revenue, currency) ==
    IF \/ "raise" \in {source.t, isrc.t, iswc.t, reported_title.t, play_count.t,
                       revenue.t, currency.t}
       \/ source.t # "str"
       \/ iswc.t \notin {"str", "None"}
       \/ currency.t # "str"
    THEN [raised |-> TRUE]
    ELSE [raised |-> FALSE, source |-> source, isrc |-> isrc, iswc |-> iswc,
          reported_title |-> reported_title, play_count |-> play_count,
          revenue_amount |-> revenue, currency |-> currency]

\* SpotifyNormalizer.normalize
SpotifyNormalizer_normalize(raw_data) ==
    NormalizedUsageEvent(
        PyStr(<<"spotify">>),
        _clean_isrc(get(raw_data, "isrc")),
        get(raw_data, "iswc"),
        _clean_string(Or(get(raw_data, "track_name"), get(raw_data, "title"))),
        int(Or(Or(get(raw_data, "streams"), get(raw_data, "play_count")), PyInt(1))),
        revenue_amount(Or(get(raw_data, "earnings"), get(raw_data, "revenue_amount"))),
        get_default(raw_data, "currency", USD))

\* AppleMusicNormalizer.normalize
AppleMusicNormalizer_normalize(raw_data) ==
    NormalizedUsageEvent(
        PyStr(<<"apple_music">>),
        _clean_isrc(Or(get(raw_data, "isrc"), get(raw_data, "apple_identifier"))),
        get(raw_data, "iswc"),
        _clean_string(Or(Or(get(raw_data, "song_name"), get(raw_data, "content_name")),
                         get(raw_data, "title"))),
        int(Or(Or(get(raw_data, "play_count"), get(raw_data, "quantity")), PyInt(1))),
        revenue_amount(Or(get(raw_data, "royalty_amount"), get(raw_data, "revenue_amount"))),
        Or(get(raw_data, "royalty_currency"), get_default(raw_data, "currency", USD)))

count_fields ==
    <<"plays", "play_count", "streams", "quantity", "units", "count", "total_plays",
      "stream_count">>

revenue_fields ==
    <<"revenue", "revenue_amount", "amount", "earnings", "royalty", "royalty_amount",
      "net_revenue", "gross_revenue", "payment">>

\* the loop of _extract_play_count and _extract_revenue: the first field that
\* is not None and converts; a ValueError or TypeError goes on to the next
RECURSIVE FirstConverted(_, _, _, _)
FirstConverted(raw_data, fields, conversion, default) ==
    IF fields = <<>> THEN default
    ELSE LET value == get(raw_data, Head(fields))
             converted == IF conversion = "int" THEN int(value) ELSE float(value)
         IN  IF value.t # "None" /\ converted.t # "raise"
             THEN converted
             ELSE FirstConverted(raw_data, Tail(fields), conversion, default)

_extract_play_count(raw_data) == FirstConverted(raw_data, count_fields, "int", PyInt(1))

_extract_revenue(raw_data) == FirstConverted(raw_data, revenue_fields, "float", PyNone)

\* a or b or c ...
RECURSIVE FirstTruthy(_, _)
FirstTruthy(raw_data, fields) ==
    IF Len(fields) = 1 THEN get(raw_data, fields[1])
    ELSE Or(get(raw_data, Head(fields)), FirstTruthy(raw_data, Tail(fields)))

\* GenericNormalizer.normalize
GenericNormalizer_normalize(raw_data) ==
    NormalizedUsageEvent(
        get_default(raw_data, "source", PyStr(<<"generic">>)),
        _clean_isrc(FirstTruthy(raw_data, <<"isrc", "ISRC", "recording_code">>)),
        Or(get(raw_data, "iswc"), get(raw_data, "ISWC")),
        _clean_string(FirstTruthy(raw_data, <<"title", "track_name", "song_name", "name",
                                              "track_title", "reported_title">>)),
        _extract_play_count(raw_data),
        revenue_amount(_extract_revenue(raw_data)),
        Or(FirstTruthy(raw_data, <<"currency", "currency_code", "royalty_currency">>), USD))

\* process_event: source from the topic, the normalizer from the source
normalize_from(topic, raw_data) ==
    LET normalizer == get_normalizer(source_from_topic(topic))
    IN  CASE normalizer = "SpotifyNormalizer" -> SpotifyNormalizer_normalize(raw_data)
          [] normalizer = "AppleMusicNormalizer" -> AppleMusicNormalizer_normalize(raw_data)
          [] normalizer = "GenericNormalizer" -> GenericNormalizer_normalize(raw_data)

\* Bounds of the payloads: separators put into a written ISRC, and the size of
\* the counts and amounts reported
MaxSeparators == 1
MaxCount == 2

RawTopics == {RAW_SPOTIFY, RAW_APPLE_MUSIC, RAW_RADIO, RAW_GENERIC, "usage.raw.other"}

Separators == {" ", "-", ".", "_"}

InsertAt(s, p, c) == SubSeq(s, 1, p) \o <<c>> \o SubSeq(s, p + 1, Len(s))

\* the ways to write a code with up to n separators put in
RECURSIVE Written(_, _)
Written(code, n) ==
    IF n = 0 THEN {code}
    ELSE LET shorter == Written(code, n - 1)
         IN  shorter \cup
             UNION { { InsertAt(w, p, c) : p \in 0..Len(w), c \in Separators } :
                     w \in shorter }

\* codes of 12, 11 and 13 characters, in upper and in lower case
IsrcCodes ==
    { <<"X", "Y", "1", "2", "3", "4", "5", "6", "7", "8", "9", "0">>,
      <<"x", "y", "1", "2", "3", "4", "5", "6", "7", "8", "9", "0">>,
      <<"X", "Y", "1", "2", "3", "4", "5", "6", "7", "8", "9">>,
      <<"x", "y", "1", "2", "3", "4", "5", "6", "7", "8", "9", "0", "1">> }

\* "xy-12-34-5678-90", "XY 12 34 56789 0", "xy12345678 90"
IsrcExamples ==
    { <<"x", "y", "-", "1", "2", "-", "3", "4", "-", "5", "6", "7", "8", "-", "9", "0">>,
      <<"X", "Y", " ", "1", "2", " ", "3", "4", " ", "5", "6", "7", "8", "9", " ", "0">>,
      <<"x", "y", "1", "2", "3", "4", "5", "6", "7", "8", " ", "9", "0">> }

IsrcValues ==
    { PyStr(w) : w \in IsrcExamples \cup UNION { Written(c, MaxSeparators) : c \in IsrcCodes } }
        \cup {PyNone, PyStr(<<>>), PyInt(7)}

IswcValues ==
    { PyStr(w) : w \in { <<"T", "1", "2", "3">>, <<"t", "1", "2", "3">>,
                         <<"T", " ", "1", "2", "3">>, <<" ", "T", "1", "2", "3", "\t">> } }
        \cup {PyNone, PyStr(<<>>), PyInt(7)}

CountValues ==
    { PyInt(n) : n \in -MaxCount..MaxCount } \cup { PyFloat(50 * n) : n \in -MaxCount..MaxCount }
        \cup {PyNone, PyStr(<<"many">>)}

RevenueValues ==
    { PyInt(n) : n \in -MaxCount..MaxCount } \cup { PyFloat(50 * n) : n \in -MaxCount..MaxCount }
        \cup {PyNone, PyStr(<<"n/a">>)}

CurrencyValues == {PyStr(<<"E", "U", "R">>), PyStr(<<>>), PyNone}

SourceValues == {PyStr(<<"radio">>), PyStr(<<"acme">>), PyNone}

TitleValues == {PyStr(<<"t", "a">>), PyStr(<<" ", "t", "a", " ">>), PyStr(<<" ">>), PyNone}

\* the payloads: the empty document, and documents with one field given
FieldValues ==
    [isrc |-> IsrcValues, ISRC |-> IsrcValues, apple_identifier |-> IsrcValues,
     iswc |-> IswcValues, ISWC |-> IswcValues,
     streams |-> CountValues, play_count |-> CountValues, quantity |-> CountValues,
     plays |-> CountValues,
     earnings |-> RevenueValues, royalty_amount |-> RevenueValues,
     revenue_amount |-> RevenueValues, revenue |-> RevenueValues,
     currency |-> CurrencyValues, currency_code |-> CurrencyValues,
     royalty_currency |-> CurrencyValues,
     source |-> SourceValues,
     title |-> TitleValues, track_name |-> TitleValues]

RawDocuments ==
    {<<>>} \cup
    UNION { { f :> v : v \in FieldValues[f] } : f \in DOMAIN FieldValues }

NormalizerInit ==
    /\ rawLog \in { << [topic |-> t, raw_data |-> d] >> : t \in RawTopics, d \in RawDocuments }
    /\ upPos = 0
    /\ upCommitted = 0
    /\ up = UpIdle
    /\ nextId = 1
    /\ usage_events = <<>>
    /\ normalized = <<>>
    /\ mePos = 0
    /\ meCommitted = 0
    /\ me = MeIdle
    /\ matched_usage = {}
    /\ nextRow = 1
    /\ matched = <<>>
    /\ unmatched = <<>>
    /\ dlq_matching = <<>>
    /\ dlq_processing = <<>>
    /\ env = 0

\* process_event up to the normalizer's return: the event as it is persisted
\* and published
UPNormalizeDocument ==
    /\ upPos < Len(rawLog)
    /\ LET msg == rawLog[upPos + 1]
           event == normalize_from(msg.topic, msg.raw_data)
       IN  /\ ~event.raised
           /\ normalized' = Append(normalized, event)
    /\ upPos' = upPos + 1
    /\ UNCHANGED <<env, rawLog, upCommitted, up, nextId, usage_events, dlq_processing>>
    /\ UNCHANGED <<meVars, matched_usage>>

\* the normalizer raises: except branch of process_event
UPNormalizeDocumentRaises ==
    /\ upPos < Len(rawLog)
    /\ normalize_from(rawLog[upPos + 1].topic, rawLog[upPos + 1].raw_data).raised
    /\ dlq_processing' = Append(dlq_processing, [offset |-> upPos + 1, error |-> "normalize"])
    /\ upPos' = upPos + 1
    /\ UNCHANGED <<env, rawLog, upCommitted, up, nextId, usage_events, normalized>>
    /\ UNCHANGED <<meVars, matched_usage>>

NormalizerNext == UPNormalizeDocument \/ UPNormalizeDocumentRaises

NormalizerSpec == NormalizerInit /\ [][NormalizerNext]_vars

\* C22 (as stated). Play-count floor: the play_count of every normalized
\* event is at least 1.
C22_PlayCountFloor ==
    \A i \in 1..Len(normalized) : normalized[i].play_count.v >= 1

\* upper-case letters and digits
UpperAlnum == {"X", "Y", "T", "0", "1", "2", "3", "4", "5", "6", "7", "8", "9"}

\* C23 (as stated). The isrc of every normalized event is null or exactly 12
\* characters, each an upper-case letter or a digit.
C23_IsrcWellFormed ==
    \A i \in 1..Len(normalized) :
        LET isrc == normalized[i].isrc
        IN  isrc.t # "None" =>
                /\ Len(isrc.v) = IsrcLength
                /\ \A k \in 1..Len(isrc.v) : isrc.v[k] \in UpperAlnum

\* a written ISRC without its spaces and hyphens
Unseparated(w) == SelectSeq(w, LAMBDA c : c \notin {" ", "-"})

\* two written forms that differ only in letter case, spaces and hyphens
SameCode(w1, w2) ==
    /\ Len(Unseparated(w1)) = Len(Unseparated(w2))
    /\ \A k \in 1..Len(Unseparated(w1)) :
          UpperChar(Unseparated(w1)[k]) = UpperChar(Unseparated(w2)[k])

\* the forms each payload's isrc is compared with: the codes as they are and
\* the examples of the specification
IsrcWritten == IsrcCodes \cup IsrcExamples

\* C24. ISRC cleaning is canonical and idempotent: the isrc normalized from a
\* written form of 12 characters besides spaces and hyphens is a 12-character
\* upper-case key; a code or example that differs from the written form only
\* in letter case, spaces and hyphens cleans to the same value; cleaning the stored key
\* returns it; and the key the ISRC matcher searches for is the stored key.
C24_IsrcCanonical ==
    \A i \in 1..Len(normalized) :
        LET raw_data == rawLog[i].raw_data
            stored == normalized[i].isrc
        IN  ("isrc" \in DOMAIN raw_data /\ raw_data["isrc"].t = "str"
                                        /\ Truthy(raw_data["isrc"])) =>
               /\ Len(Unseparated(raw_data["isrc"].v)) = IsrcLength <=> stored.t = "str"
               /\ stored.t = "str" =>
                     /\ Len(stored.v) = IsrcLength
                     /\ upper(stored.v) = stored.v
                     /\ _clean_isrc(stored) = stored
                     /\ IsrcMatcher_cleaned_isrc(stored) = stored
               /\ \A w \in IsrcWritten :
                     SameCode(w, raw_data["isrc"].v) => _clean_isrc(PyStr(w)) = stored

\* the first example of the specification, "xy-12-34-5678-90", is stored as
\* XY1234567890
C24_Witness ==
    /\ Len(normalized) = 1
    /\ "isrc" \in DOMAIN rawLog[1].raw_data
    /\ rawLog[1].raw_data["isrc"] =
          PyStr(<<"x", "y", "-", "1", "2", "-", "3", "4", "-", "5", "6", "7", "8", "-", "9", "0">>)
    /\ normalized[1].isrc =
          PyStr(<<"X", "Y", "1", "2", "3", "4", "5", "6", "7", "8", "9", "0">>)

\* C25 (as stated). The iswc of every normalized event is null or is in upper
\* case and holds no whitespace.
C25_IswcCleaned ==
    \A i \in 1..Len(normalized) :
        LET iswc == normalized[i].iswc
        IN  iswc.t # "None" =>
                /\ upper(iswc.v) = iswc.v
                /\ \A k \in 1..Len(iswc.v) : iswc.v[k] \notin Whitespace

\* C26 (as stated). The source of a normalized event is the one its topic maps
\* to, whatever the payload holds.
C26_SourceFromTopic ==
    \A i \in 1..Len(normalized) :
        normalized[i].source = PyStr(<<source_from_topic(rawLog[i].topic)>>)

\* The keys under which the normalizer serving a topic looks for the currency
CurrencyAliases(topic) ==
    LET normalizer == get_normalizer(source_from_topic(topic))
    IN  CASE normalizer = "SpotifyNormalizer" -> {"currency"}
          [] normalizer = "AppleMusicNormalizer" -> {"royalty_currency", "currency"}
          [] normalizer = "GenericNormalizer" ->
                 {"currency", "currency_code", "royalty_currency"}

NoCurrencyField(message) ==
    DOMAIN message.raw_data \cap CurrencyAliases(message.topic) = {}

\* C27. A payload holding the currency under none of the aliases of its
\* normalizer yields an event with currency "USD": every event normalized from
\* such a payload carries "USD", and the payload with no field at all is
\* normalized, not dead-lettered.
C27_CurrencyDefault ==
    /\ \A i \in 1..Len(normalized) :
           NoCurrencyField(rawLog[i]) =>
               normalized[i].currency = PyStr(<<"U", "S", "D">>)
    /\ \A i \in 1..upPos :
           rawLog[i].raw_data = <<>> => Len(normalized) >= i

C27_Witness ==
    \E i \in 1..Len(normalized) :
        /\ rawLog[i].topic = RAW_APPLE_MUSIC
        /\ DOMAIN rawLog[i].raw_data = {"title"}
        /\ normalized[i].currency = PyStr(<<"U", "S", "D">>)

\* C28 (as stated). The revenue_amount of a normalized event is null or at
\* least 0, whatever revenue the payload reports.
C28_RevenueNotNegative ==
    \A i \in 1..Len(normalized) :
        \/ normalized[i].revenue_amount.t = "None"
        \/ normalized[i].revenue_amount.v >= 0

\* the works the vector query ranges over, and the highest similarity among them
EmbeddedActive == { w \in Work : w.status = "active" /\ w.has_embedding }

TopSimilarity(embedding) ==
    CHOOSE c \in { CosineSimilarity(embedding, w.id) : w \in EmbeddedActive } :
        \A w \in EmbeddedActive : CosineSimilarity(embedding, w.id) <= c

ConsultedEmbedding(state) ==
    \E k \in 1..Len(state.match_attempts) : state.match_attempts[k].method = "ai_embedding"

AiSuggestions(state) ==
    SelectSeq(state.suggested_matches, LAMBDA s : s.method = "ai_embedding")

\* C29. When the vector strategy is consulted, it accepts exactly when the
\* highest cosine similarity among the active works with a title embedding is
\* at least embedding_match_threshold. When it does not accept, the suggestions
\* by ai_embedding are the candidates of similarity at least
\* manual_review_threshold, best first, at most max_alternative_matches of them
\* and none left out that is better than one carried. Every ai_embedding
\* suggestion has its confidence in [manual_review_threshold,
\* embedding_match_threshold).
C29_EmbeddingAcceptance ==
    /\ (me.state.outcome \in {"matched", "unmatched"} /\ ConsultedEmbedding(me.state)) =>
          \A top \in {TopSimilarity(me.state.content_embedding)},
             cand \in {ReviewCandidates(me.state.content_embedding)},
             ai \in {AiSuggestions(me.state)} :
              LET carried == { ai[k].work_id : k \in 1..Len(ai) }
              IN  /\ me.state.match_method = "ai_embedding" <=>
                        top >= embedding_match_threshold
                  /\ me.state.match_method = "ai_embedding" =>
                        me.state.confidence = top
                  /\ me.state.match_method # "ai_embedding" =>
                        /\ \A k \in 1..Len(ai) :
                              \E w \in cand :
                                  /\ w.id = ai[k].work_id
                                  /\ ai[k].confidence =
                                         CosineSimilarity(me.state.content_embedding, w.id)
                        /\ Len(ai) = Cardinality(carried)
                        /\ \/ Len(ai) = Cardinality(cand)
                           \/ /\ Len(ai) = max_alternative_matches
                              /\ Cardinality(cand) > Len(ai)
                        /\ \A i, j \in 1..Len(ai) :
                              i < j => ai[i].confidence >= ai[j].confidence
                        /\ \A w \in cand : \A k \in 1..Len(ai) :
                              w.id \notin carried =>
                                  CosineSimilarity(me.state.content_embedding, w.id)
                                      <= ai[k].confidence
    /\ \A k \in 1..Len(me.state.suggested_matches) :
          me.state.suggested_matches[k].method = "ai_embedding" =>
              /\ me.state.suggested_matches[k].confidence >= manual_review_threshold
              /\ me.state.suggested_matches[k].confidence < embedding_match_threshold

\* an event with six candidates for review, none at the acceptance threshold,
\* went out unmatched with the best five
C29_Witness ==
    /\ Handled
    /\ me.state.outcome = "unmatched"
    /\ ConsultedEmbedding(me.state)
    /\ Cardinality(ReviewCandidates(me.state.content_embedding)) = 6
    /\ Len(AiSuggestions(me.state)) = max_alternative_matches
    /\ TopSimilarity(me.state.content_embedding) < embedding_match_threshold

\* what the fuzzy and the vector strategies collect for an event, as
\* suggestions
Collected(ev) ==
    Range(FuzzyMatcher_match(ev.reported_title, max_alternative_matches))
        \cup Range(EmbeddingMatcher_get_suggestions(ev.content_embedding,
                                                    max_alternative_matches))

WorkIdOrder == <<"W1", "W2", "W3", "W4", "W5", "W6", "W7">>

WorkIdBefore(a, b) ==
    \E i, j \in 1..Len(WorkIdOrder) :
        i < j /\ WorkIdOrder[i] = a /\ WorkIdOrder[j] = b

\* C31 (as stated). In the suggestions of a usage.unmatched message the higher
\* similarity comes first, and two candidates of identical similarity stand in
\* ascending order of work_id.
C31_TiesByWorkId ==
    \A i \in 1..Len(unmatched) :
        LET sm == unmatched[i].suggested_matches
        IN  \A j, k \in 1..Len(sm) :
                j < k =>
                    \/ sm[j].confidence > sm[k].confidence
                    \/ /\ sm[j].confidence = sm[k].confidence
                       /\ WorkIdBefore(sm[j].work_id, sm[k].work_id)

\* the ISRC of the event of a row or message, as the Matching Engine received it
IsrcOfEvent(e) ==
    { normalized[i].isrc : i \in { j \in 1..Len(normalized) : normalized[j].event_id = e } }

\* a match by one of the identifier strategies, as a row or a message holds it
IdentifierMatch(m) ==
    /\ m.match_method = "isrc_exact" =>
          /\ m.match_confidence = 100
          /\ m.recording_id # NoVal
          /\ \E r \in Recording :
                /\ r.id = m.recording_id
                /\ r.isrc # NoVal
                /\ r.isrc \in IsrcOfEvent(m.usage_event_id)
                /\ r.work_id = m.work_id
    /\ m.match_method = "iswc_exact" =>
          /\ m.match_confidence = 100
          /\ m.recording_id = NoVal

\* C32. A match by isrc_exact has confidence 1.0, a recording, and the work
\* that owns that recording, whose isrc is the event's; a match by iswc_exact
\* has confidence 1.0 and no recording. This holds of every matched_usage row
\* and of every usage.matched message.
C32_IdentifierMatches ==
    /\ \A r \in matched_usage : IdentifierMatch(r)
    /\ \A i \in 1..Len(matched) : IdentifierMatch(matched[i])

\* an event with an ISRC and an ISWC of different works went by its ISRC: row
\* and message name the recording R1 and its work W1
C32_Witness ==
    /\ \E r \in matched_usage :
          /\ r.match_method = "isrc_exact"
          /\ r.recording_id = "R1"
          /\ r.work_id = "W1"
          /\ IsrcOfEvent(r.usage_event_id) = {"I1"}
    /\ \E i \in 1..Len(matched) : matched[i].match_method = "isrc_exact"

----------------------------------------------------------------------------
(* Batch embeddings: usage_processor/src/embedding_service.py *)

\* Bounds: the items of one call; the texts of one request (the setting
\* embedding_batch_size, 100 by default, scaled down)
MaxItems == 4
embedding_batch_size == 2

\* _build_content_text: the parts that are present, "" when there is none
_build_content_text(title, artist, album) ==
    LET part(label, value) ==
            IF value = NoVal \/ value = "" THEN <<>> ELSE << <<label, value>> >>
    IN  part("Title", title) \o part("Artist", artist) \o part("Album", album)

\* item.get(key)
item_get(item, key) == IF key \in DOMAIN item THEN item[key] ELSE NoVal

ItemValues ==
    { [title |-> "ta", artist |-> "aa"],
      [title |-> "tb"],
      [title |-> "", artist |-> NoVal],
      [album |-> NoVal] }

ItemLists == UNION { [1..n -> ItemValues] : n \in 0..MaxItems }

\* what the provider returns for one text
Embedding(content) == [t |-> "embedding", v |-> content]

\* lines 106-121 of generate_embeddings_batch (positions count from 1 here)
contents(items) ==
    [i \in 1..Len(items) |->
        _build_content_text(item_get(items[i], "title"), item_get(items[i], "artist"),
                            item_get(items[i], "album"))]

\* the positions kept for the provider, taking every item
non_empty_indices_all(items) == [i \in 1..Len(items) |-> i]

non_empty_indices(items) ==
    SelectSeq([i \in 1..Len(items) |-> i], LAMBDA i : contents(items)[i] # <<>>)

non_empty_contents(items) ==
    LET indices == non_empty_indices(items)
    IN  [k \in 1..Len(indices) |-> contents(items)[indices[k]]]

\* the call in progress: its argument, the result list, where the loop over
\* the batches stands, the requests made and the batches whose request failed
EmbeddingCall(items) ==
    [pc |-> "called", items |-> items, embeddings |-> <<>>, batch_start |-> 0,
     requests |-> <<>>, failed |-> {}]

EmbeddingInit ==
    /\ up \in { EmbeddingCall(items) : items \in ItemLists }
    /\ rawLog = <<>>
    /\ upPos = 0
    /\ upCommitted = 0
    /\ nextId = 1
    /\ usage_events = <<>>
    /\ normalized = <<>>
    /\ mePos = 0
    /\ meCommitted = 0
    /\ me = MeIdle
    /\ matched_usage = {}
    /\ nextRow = 1
    /\ matched = <<>>
    /\ unmatched = <<>>
    /\ dlq_matching = <<>>
    /\ dlq_processing = <<>>
    /\ env = 0

notEmbeddingCall == <<rawLog, upPos, upCommitted, nextId, usage_events, normalized,
                      dlq_processing, env, matched_usage>>

\* up to the loop: nothing to embed returns a list of None at once
EBPrepare ==
    /\ up.pc = "called"
    /\ up' = [up EXCEPT
                !.embeddings = [i \in 1..Len(up.items) |-> PyNone],
                !.pc = IF non_empty_contents(up.items) = <<>> THEN "returned" ELSE "loop"]
    /\ UNCHANGED <<notEmbeddingCall, meVars>>

batch_end(call) ==
    LET total == Len(non_empty_contents(call.items))
    IN  IF call.batch_start + embedding_batch_size < total
        THEN call.batch_start + embedding_batch_size ELSE total

\* non_empty_contents[batch_start:batch_end] and non_empty_indices[...]
batch_contents(call) ==
    SubSeq(non_empty_contents(call.items), call.batch_start + 1, batch_end(call))

batch_indices(call) ==
    SubSeq(non_empty_indices(call.items), call.batch_start + 1, batch_end(call))

InLoop(call) ==
    call.pc = "loop" /\ call.batch_start < Len(non_empty_contents(call.items))

\* one request that the provider answers: response.data holds one embedding
\* per text, in the order of the texts
EBBatch ==
    /\ InLoop(up)
    /\ LET indices == batch_indices(up)
           texts == batch_contents(up)
       IN  up' = [up EXCEPT
                    !.embeddings =
                        [i \in 1..Len(up.items) |->
                            IF \E k \in 1..Len(indices) : indices[k] = i
                            THEN Embedding(texts[CHOOSE k \in 1..Len(indices) :
                                                     indices[k] = i])
                            ELSE up.embeddings[i]],
                    !.requests = Append(@, texts),
                    !.batch_start = @ + embedding_batch_size]
    /\ UNCHANGED <<notEmbeddingCall, meVars>>

\* a failed request that ends the whole call
EBBatchFails_aborts ==
    /\ InLoop(up)
    /\ up' = [up EXCEPT !.requests = Append(@, batch_contents(up)),
                        !.failed = @ \cup {up.batch_start},
                        !.pc = "returned"]
    /\ UNCHANGED <<notEmbeddingCall, meVars>>

\* one request that raises: logged, the positions of the batch stay None and
\* the loop goes on
EBBatchFails ==
    /\ InLoop(up)
    /\ up' = [up EXCEPT !.requests = Append(@, batch_contents(up)),
                        !.failed = @ \cup {up.batch_start},
                        !.batch_start = @ + embedding_batch_size]
    /\ UNCHANGED <<notEmbeddingCall, meVars>>

\* return embeddings
EBReturn ==
    /\ up.pc = "loop"
    /\ ~InLoop(up)
    /\ up' = [up EXCEPT !.pc = "returned"]
    /\ UNCHANGED <<notEmbeddingCall, meVars>>

EmbeddingNext == EBPrepare \/ EBBatch \/ EBBatchFails \/ EBReturn

EmbeddingSpec == EmbeddingInit /\ [][EmbeddingNext]_vars

Returned == up.pc = "returned"

RECURSIVE Concatenated(_)
Concatenated(seqs) ==
    IF seqs = <<>> THEN <<>> ELSE Head(seqs) \o Concatenated(Tail(seqs))

\* the texts of the input that are not empty, in the order of the input
TextsToEmbed(items) ==
    SelectSeq(contents(items), LAMBDA content : content # <<>>)

\* C33. The list returned has the length of the input; the position of an
\* input with empty content holds null, and, the provider answering, every
\* other position holds the embedding of its own input. The requests made hold
\* no empty text and at most embedding_batch_size texts each, all but the last
\* are full, and together they are the non-empty texts in the order of the
\* input: an input with empty content takes no place in a batch.
C33_BatchAligned ==
    /\ \A k \in 1..Len(up.requests) :
          /\ Len(up.requests[k]) \in 1..embedding_batch_size
          /\ \A j \in 1..Len(up.requests[k]) : up.requests[k][j] # <<>>
          /\ k < Len(up.requests) => Len(up.requests[k]) = embedding_batch_size
    /\ Returned =>
          /\ Len(up.embeddings) = Len(up.items)
          /\ Concatenated(up.requests) = TextsToEmbed(up.items)
          /\ \A i \in 1..Len(up.items) :
                LET content == contents(up.items)[i]
                IN  /\ content = <<>> => up.embeddings[i] = PyNone
                    /\ (content # <<>> /\ up.failed = {}) =>
                          up.embeddings[i] = Embedding(content)

\* a call with an empty-content input between two others, and more texts than
\* one batch holds, has returned all embeddings
C33_Witness ==
    /\ Returned
    /\ up.failed = {}
    /\ Len(up.requests) = 2
    /\ \E i \in 2..(Len(up.items) - 1) :
          /\ contents(up.items)[i] = <<>>
          /\ up.embeddings[i] = PyNone
          /\ up.embeddings[i - 1] # PyNone
          /\ up.embeddings[i + 1] # PyNone

\* the offset at which the batch of position i of the input starts: the texts
\* before it, rounded down to whole batches
BatchOf(items, i) ==
    LET before == Cardinality({ j \in 1..(i - 1) : contents(items)[j] # <<>> })
    IN  (before \div embedding_batch_size) * embedding_batch_size

\* C34. When the call has returned, an input with content whose batch failed
\* has a null embedding, and an input with content whose batch did not fail has
\* its embedding, whichever other batches failed.
C34_FailureStaysInBatch ==
    Returned =>
        \A i \in 1..Len(up.items) :
            LET content == contents(up.items)[i]
            IN  content # <<>> =>
                    up.embeddings[i] =
                        IF BatchOf(up.items, i) \in up.failed
                        THEN PyNone ELSE Embedding(content)

\* the first of two batches failed and the second did not: the items of the
\* first have no embedding, the item of the second has its own
C34_Witness ==
    /\ Returned
    /\ up.failed = {0}
    /\ Len(up.requests) = 2
    /\ \E i, j \in 1..Len(up.items) :
          /\ contents(up.items)[i] # <<>>
          /\ BatchOf(up.items, i) = 0
          /\ up.embeddings[i] = PyNone
          /\ BatchOf(up.items, j) = embedding_batch_size
          /\ up.embeddings[j] = Embedding(contents(up.items)[j])

\* the handler of the Usage Processor has returned from the message at its
\* offset
UPReturned == up.pc = "idle" /\ up.offset > 0

\* the records that the handling of the message at up.offset has published
PublishedNormalized ==
    { i \in 1..Len(normalized) : normalized[i].event_id = up.ev.event_id }

PublishedDeadLetter ==
    { i \in 1..Len(dlq_processing) : dlq_processing[i].offset = up.offset }

\* C35 (as stated). A handler of the Usage Processor that has returned has
\* published exactly one record for its message: the normalized event or a
\* record on dlq.usage.processing, not neither and not both.
C35_ExactlyOneRecord ==
    UPReturned =>
        Cardinality(PublishedNormalized) + Cardinality(PublishedDeadLetter) = 1

\* C36 (as stated). A raw message with a record on dlq.usage.processing has
\* no row in usage_events.
C36_DeadLetterLeavesNoRow ==
    \A i \in 1..Len(dlq_processing) :
        \A e \in DOMAIN usage_events :
            usage_events[e].raw # dlq_processing[i].offset

\* C37. Every usage event with processing_status matched has a matched_usage
\* row, in every state: whatever the workers and the manual-match endpoint have
\* done or failed to do.
C37_MatchedHasRow ==
    \A e \in DOMAIN usage_events :
        usage_events[e].processing_status = "matched" =>
            \E r \in matched_usage : r.usage_event_id = e

\* an event that the Matching Engine left unmatched and a manual match then
\* set to matched: it has the manual row
C37_Witness ==
    /\ Len(unmatched) > 0
    /\ \E e \in DOMAIN usage_events :
          /\ e = unmatched[1].usage_event_id
          /\ usage_events[e].processing_status = "matched"
          /\ \E r \in matched_usage : r.usage_event_id = e /\ r.match_method = "manual"

\* the fuzzy strategy was consulted and did not accept
FuzzyDeclined(state) ==
    \E k \in 1..Len(state.match_attempts) :
        state.match_attempts[k] = Attempt("fuzzy_title", FALSE)

C39_NoMessageDroppedOnShutdown ==
    /\ (up.pc = "stopped" /\ up.error # "fatal" /\ upPos > 0) =>
          \/ up.offset = upPos
          \/ upCommitted < upPos
    /\ (me.pc = "stopped" /\ mePos > 0) =>
          \/ me.event_data = normalized[mePos]
          \/ meCommitted < mePos

====
